---- MODULE Spec2Model ----
(***************************************************************************)
(* The persistence and search core of the quiz application (src/db.js,     *)
(* src/core.js): the Dexie tables, the bootstrap loader, the FlexSearch    *)
(* index and the data access functions, as a state machine; and the note   *)
(* operations of the notes page (src/ui-common.js).                        *)
(*                                                                         *)
(* Conventions.  An optional JavaScript value is a sequence of length 0    *)
(* (undefined / null) or 1 (present).  A string that is searched is a      *)
(* sequence of words and a word is a sequence of one-letter strings, so    *)
(* that forward tokenisation (prefix match) is computed, not assumed.      *)
(* A table is the set of its rows; the primary key is enforced by Put.     *)
(***************************************************************************)
EXTENDS Integers, Sequences, FiniteSets, TLC

VARIABLES
    questions,              \* table db.questions (persistent)
    settings,               \* table db.settings (persistent)
    questionSearchIndex,    \* module variable of db.js:8: <<>> is null, <<idx>> an index
    flexLoaded,             \* typeof FlexSearch !== 'undefined' in this session
    dbOpen,                 \* whether db.open() succeeded in this session
    pc,                     \* position of the DOMContentLoaded handler of db.js
    fetchedQs,              \* local `questions` of initializeDatabase
    startupRead,            \* local `allQuestions` of the startup populateSearchIndex
    search,                 \* the fullTextSearchQuestions call in flight
    ret,                    \* what the last completed data access call returned
    log,                    \* tags written with console.error in this session
    overlayDismissed,       \* the loading overlay got class opacity-0
    fetchResult,            \* history: outcome of fetch() in this session
    bootstrapPut,           \* history: outcome of the bulkPut of initializeDatabase
    added,                  \* history: rows addQuestions wrote in this session, not overwritten
    lastSet,                \* history: key -> value of the latest successful setSetting
    quizResults,            \* table db.quizResults (persistent)
    resultKey,              \* key generator of db.quizResults ('++id'), persistent
    givenIds,               \* history: ids saveQuizResult returned in this session, in call order
    notes,                  \* table db.notes (persistent)
    noteKey,                \* key generator of db.notes ('++id'), persistent
    notesList,              \* what renderNotesList last wrote into #notes-list-container
    clock,                  \* the wall clock read by Date.now() and new Date()
    indexBuilt,             \* history: a populateSearchIndex of this session read the table
    fetchedWhileEmpty,      \* history: the dataset was fetched and the table has been empty since
    quizVersion,            \* which of the two versions held by page-quiz.js the page runs
    quizPc,                 \* what the quiz page shows: home, loading, question, saved, saveFailed, results
    currentQuestions,       \* currentQuizQuestions (lines 8, 25) / currentQuestions (211, 233)
    currentQuestionIndex,   \* currentQuestionIndex of page-quiz.js (lines 9, 212)
    userAnswers,            \* userSelections (line 11) / userAnswers (213): pairs <<question id, option id>>
    quizRunResults,         \* quizRunResults of page-quiz.js (line 10)
    completedRuns,          \* history: quiz runs in which the last question was answered and finished
    saveCalls,              \* history: calls of saveQuizResult made by the quiz page
    writers,                \* the addQuestions calls in flight: rows, position and outcome of each bulkPut
    tableBefore,            \* history: the question table when the first call in flight was made
    aiVersion,              \* which copy of ai.js the page runs: lines 1-203 or lines 206-399
    genAI,                  \* genAI of ai.js: the API key of the client, if one was made
    activeModelName,        \* activeModelName of ai.js
    aiInit,                 \* the initializeGenerativeModel call in flight: position, caller, key
    selectedUnder,          \* history: the API key under which activeModelName was selected
    initResult,             \* history: what the last initializeGenerativeModel reported, and its test requests
    aiRun,                  \* history: model and client key of the last AI feature request
    modalVersion,           \* which showModal/hideModal the page runs: ui-common.js or part_004
    modalHidden,            \* #modal-backdrop and #unified-modal-container carry the class hidden
    modalFaded,             \* they carry the class opacity-0
    activeModalContentId,   \* activeModalContentId of ui-common.js (line 9)
    visibleContent,         \* the content elements that do not carry the class hidden
    inContainer,            \* the content elements that are children of the modal container
    hideTimers,             \* number of timers set by hideModal that have not fired yet
    shownSince,             \* history: the content of the last showModal that succeeded, until a hideModal call
    quizFetch,              \* subject and topic of the getQuestions call that startNewQuiz awaits
    nextOnclick,            \* nextBtn.onclick of page-quiz.js (line 315)
    shownOptions,           \* the question whose options the options container shows
    indexUse                \* history: index and length of the list at the last rendering or grading

vars == <<questions, settings, questionSearchIndex, flexLoaded, dbOpen, pc, fetchedQs,
          startupRead, search, ret, log, overlayDismissed, fetchResult, bootstrapPut, added,
          lastSet, quizResults, resultKey, givenIds, notes, noteKey, notesList, clock,
          indexBuilt, fetchedWhileEmpty, quizVersion, quizPc, currentQuestions,
          currentQuestionIndex, userAnswers, quizRunResults, completedRuns, saveCalls,
          writers, tableBefore, aiVersion, genAI, activeModelName, aiInit, selectedUnder,
          initResult, aiRun, modalVersion, modalHidden, modalFaded, activeModalContentId,
          visibleContent, inContainer, hideTimers, shownSince, quizFetch, nextOnclick,
          shownOptions, indexUse>>

----------------------------------------------------------------------------
(* Bounds of the model *)

\* longest list handed to addQuestions
MaxBatch == 2
\* number of quiz results saved
MaxResults == 3
\* number of note keys generated
MaxNotes == 2
\* number of ticks of the wall clock
MaxClock == 1
\* number of rows of the largest initial dataset
BigSize == 11
\* number of quiz runs completed
MaxRuns == 2
\* longest option list of a question handed to calculateScore
MaxOptions == 2
\* longest list of selections handed to calculateScore
MaxSelections == 2
\* number of timers of hideModal waiting to fire
MaxTimers == 2

(* Program constant: search(query, { limit: 10, enrich: true }) *)
Limit == 10

----------------------------------------------------------------------------
(* Values *)

None == <<>>
Some(v) == <<v>>

wQ1 == <<"q", "1">>
wQ == <<"q">>
wAi == <<"a", "i">>
wX == <<"x">>
wZ == <<"z">>

\* options: [{ id, text, is_correct }]: "a" is the correct one; none is marked correct
OneCorrect == <<[id |-> "a", is_correct |-> TRUE], [id |-> "b", is_correct |-> FALSE]>>
NoneCorrect == <<[id |-> "a", is_correct |-> FALSE], [id |-> "b", is_correct |-> FALSE]>>

\* the record of the spec's bootstrap scenario: no explanation, no keywords
Q1 == [id |-> 1, subject |-> "History", topic |-> "IVC",
       question_text |-> Some(<<wQ1>>), explanation |-> None, keywords |-> None,
       options |-> OneCorrect]
\* same id as Q1, other subject, no topic, q1 only in the summary
Q1b == [id |-> 1, subject |-> "Polity", topic |-> "",
        question_text |-> Some(<<wZ>>), explanation |-> Some([summary |-> Some(<<wQ1>>)]),
        keywords |-> Some(<<wAi>>), options |-> OneCorrect]
\* an AI-generated record: "ai" in all three indexed fields, "x" only in its text;
\* the model that generated it marked no option as correct
Q2 == [id |-> 2, subject |-> "Remixed", topic |-> "AI",
       question_text |-> Some(<<wAi, wX>>), explanation |-> Some([summary |-> Some(<<wAi>>)]),
       keywords |-> Some(<<wAi, wQ1>>), options |-> NoneCorrect]

Pool == {Q1, Q1b, Q2}

\* the rows of a large dataset; its last row has no question_text and an
\* explanation without summary
BigQ(i) ==
    IF i < BigSize
    THEN [id |-> i, subject |-> "History", topic |-> "IVC",
          question_text |-> Some(<<wQ1>>), explanation |-> None, keywords |-> None,
          options |-> OneCorrect]
    ELSE [id |-> i, subject |-> "Polity", topic |-> "IVC",
          question_text |-> None, explanation |-> Some([summary |-> None]),
          keywords |-> Some(<<wQ1>>), options |-> OneCorrect]

BigDataset == [i \in 1..BigSize |-> BigQ(i)]

\* the lists data/initial_questions.json can parse to
Datasets == {<<>>, <<Q1>>, <<Q1, Q1b>>, BigDataset}

\* a JavaScript value as initializeDatabase looks at it: its type, the elements of
\* a list, and its `length` property when it has one
JsList(d) == [type |-> "list", items |-> d, length |-> Some(Len(d))]
JsUndefined == [type |-> "undefined", items |-> <<>>, length |-> None]
JsNull == [type |-> "null", items |-> <<>>, length |-> None]
JsNumber == [type |-> "number", items |-> <<>>, length |-> None]
JsObject == [type |-> "object", items |-> <<>>, length |-> None]
\* the string "abc"
JsString == [type |-> "string", items |-> <<>>, length |-> Some(3)]

\* what response.json() can resolve to besides a list
NonLists == {JsNull, JsNumber, JsObject, JsString}
JsonValues == {JsList(d) : d \in Datasets} \cup NonLists

\* `v && ...`: null and undefined are falsy; 7, {} and "abc" are truthy
Truthy(v) == v.type \notin {"null", "undefined"}

\* no primary key: the record has no `id` property
NoKey == 0
HasKey(r) == r.id # NoKey

\* a generated question that lacks its id
QNoId == [id |-> NoKey, subject |-> "Remixed", topic |-> "AI",
          question_text |-> Some(<<wX>>), explanation |-> None, keywords |-> None,
          options |-> OneCorrect]

\* the lists handed to addQuestions in which a record lacks its id: that record
\* alone, after a well-formed record, before a well-formed record
MalformedBatches == {<<QNoId>>, <<Q2, QNoId>>, <<QNoId, Q2>>}

Batches == UNION {[1..n -> Pool] : n \in 1..MaxBatch} \cup MalformedBatches

Queries == {wQ1, wQ, wAi, wX}
Subjects == {"History", "Polity", "Remixed"}
Topics == {"", "IVC", "AI"}

\* what aggregateQuizResults hands to saveQuizResult: no id
QuizOutcomes == {[subject |-> "History", score |-> sc, totalQuestions |-> 1] : sc \in 0..1}

\* the subject and topic startNewQuiz is called with
QuizChoices == {<<"History", "IVC">>, <<"Remixed", "AI">>, <<"Polity", "IVC">>}

\* a key of db.notes: the number n or the string "n"
NumKey(n) == [str |-> FALSE, n |-> n]
StrKey(n) == [str |-> TRUE, n |-> n]
NoteTitles == {"a", "b"}

SettingKeys == {"geminiApiKey", "theme"}
SettingValues == {"k1", "k2"}

Ids(rows) == {r.id : r \in rows}
SeqIds(s) == {s[i].id : i \in DOMAIN s}
Range(s) == {s[i] : i \in DOMAIN s}
\* of the rows of a list that share an id, the one written last
LastPerId(s) == {s[i] : i \in {k \in DOMAIN s : \A j \in DOMAIN s : j > k => s[j].id # s[k].id}}

----------------------------------------------------------------------------
(* Dexie tables *)

\* Table.put on a table whose primary key is `id`: insert or replace
PutWipe(table, row) == {row}
PutNoReplace(table, row) == table \cup {row}
PutIfAbsent(table, row) == IF row.id \in Ids(table) THEN table ELSE table \cup {row}
Put(table, row) == {r \in table : r.id # row.id} \cup {row}

\* Table.bulkPut: the rows are put in list order
BulkPutAfterClear(table, rows) == {rows[i] : i \in DOMAIN rows}
BulkPutFirstOnly(table, rows) == IF rows = <<>> THEN table ELSE Put(table, Head(rows))
RECURSIVE BulkPut(_, _)
BulkPut(table, rows) ==
    IF rows = <<>> THEN table
    ELSE BulkPut(Put(table, Head(rows)), Tail(rows))

\* the longest prefix of a list whose records all have the primary key
RECURSIVE KeyedPrefix(_)
KeyedPrefix(rows) ==
    IF rows = <<>> THEN <<>>
    ELSE IF ~HasKey(Head(rows)) THEN <<>>
    ELSE <<Head(rows)>> \o KeyedPrefix(Tail(rows))

KeyedRows(rows) == SelectSeq(rows, HasKey)

\* Table.bulkPut called outside a transaction, as db.js calls it: the put of a
\* record without primary key fails and the call rejects, but the implicit
\* transaction commits the puts that succeeded: those issued before the failing
\* put (put throws) or all the others (the request fails)
BulkPutCommits(rows) == {KeyedPrefix(rows), KeyedRows(rows)}

\* Table.toArray: rows in primary key order
RECURSIVE ToArray(_)
ToArray(table) ==
    IF table = {} THEN <<>>
    ELSE LET first == CHOOSE r \in table : \A o \in table : r.id <= o.id
         IN <<first>> \o ToArray(table \ {first})

\* a storage request succeeds or fails; it always fails on a store that did not open
StoreOutcomes == IF dbOpen THEN {TRUE, FALSE} ELSE {FALSE}

----------------------------------------------------------------------------
(* FlexSearch.Document, as db.js configures and calls it *)

\* setupFlexSearchIndex: index: ["question_text", "explanation.summary", "keywords"]
IndexedFields == <<"question_text", "explanation.summary", "keywords">>

\* a document without the entry 'explanation.summary'
ToSearchDocNoSummary(q) ==
    [id |-> q.id,
     question_text |-> IF q.question_text = None THEN <<>> ELSE q.question_text[1],
     explanation_summary |-> <<>>,
     keywords |-> IF q.keywords = None THEN <<>> ELSE q.keywords[1]]

\* the document populateSearchIndex hands to questionSearchIndex.add:
\* q.question_text || '', q.explanation?.summary || '', q.keywords || []
ToSearchDoc(q) ==
    [id |-> q.id,
     question_text |-> IF q.question_text = None THEN <<>> ELSE q.question_text[1],
     explanation_summary |-> IF q.explanation = None THEN <<>>
                             ELSE IF q.explanation[1].summary = None THEN <<>>
                             ELSE q.explanation[1].summary[1],
     keywords |-> IF q.keywords = None THEN <<>> ELSE q.keywords[1]]

FieldOf(doc, field) ==
    CASE field = "question_text" -> doc.question_text
      [] field = "explanation.summary" -> doc.explanation_summary
      [] field = "keywords" -> doc.keywords

\* tokenize: "forward": a word is indexed under each of its non-empty prefixes
IsPrefix(p, w) == Len(p) > 0 /\ Len(p) <= Len(w) /\ SubSeq(w, 1, Len(p)) = p
FieldMatches(doc, field, query) ==
    \E i \in DOMAIN FieldOf(doc, field) : IsPrefix(query, FieldOf(doc, field)[i])

RemoveId(idx, id) == SelectSeq(idx, LAMBDA d : d.id # id)

\* an add that does not look for the id in the register
IndexAddAppend(idx, doc) == Append(idx, doc)

\* questionSearchIndex.add(doc): a document whose id is registered is updated
IndexAdd(idx, doc) == Append(RemoveId(idx, doc.id), doc)

RECURSIVE IndexAddAll(_, _)
IndexAddAll(idx, rows) ==
    IF rows = <<>> THEN idx
    ELSE IndexAddAll(IndexAdd(idx, ToSearchDoc(Head(rows))), Tail(rows))

FirstN(s, n) == IF Len(s) <= n THEN s ELSE SubSeq(s, 1, n)

\* one field's result list, limited to `limit` documents
FieldSearch(idx, field, query, limit) ==
    FirstN(SelectSeq(idx, LAMBDA d : FieldMatches(d, field, query)), limit)

\* questionSearchIndex.search(query, { limit, enrich: true }): one group
\* { field, result } per indexed field that matched, the limit applied per field
RECURSIVE SearchFields(_, _, _, _)
SearchFields(idx, fields, query, limit) ==
    IF fields = <<>> THEN <<>>
    ELSE LET res == FieldSearch(idx, Head(fields), query, limit)
             rest == SearchFields(idx, Tail(fields), query, limit)
         IN IF res = <<>> THEN rest
            ELSE <<[field |-> Head(fields), result |-> res]>> \o rest

DocumentSearch(idx, query) == SearchFields(idx, IndexedFields, query, Limit)

\* uniqueDocs.set(doc.id, doc.doc) on a Map kept in insertion order
MapSetAppend(m, doc) == Append(m, doc)
MapSet(m, doc) ==
    IF \E i \in DOMAIN m : m[i].id = doc.id
    THEN [i \in DOMAIN m |-> IF m[i].id = doc.id THEN doc ELSE m[i]]
    ELSE Append(m, doc)

RECURSIVE MapSetAll(_, _)
MapSetAll(m, docs) ==
    IF docs = <<>> THEN m ELSE MapSetAll(MapSet(m, Head(docs)), Tail(docs))

\* fullTextSearchQuestions, lines 61-70: flatten the field groups through the Map
RECURSIVE FlattenResults(_, _)
FlattenResults(m, results) ==
    IF results = <<>> THEN m
    ELSE FlattenResults(MapSetAll(m, Head(results).result), Tail(results))

\* setupFlexSearchIndex: store: ["id", "subject", "topic", "question_text", ...]:
\* with enrich: true a result carries as `doc` the stored fields of the document
\* that was handed to add; a stored field that document did not have is undefined
StoredDoc(doc) ==
    [id |-> doc.id, subject |-> None, topic |-> None,
     question_text |-> Some(doc.question_text), explanation |-> None,
     keywords |-> Some(doc.keywords)]

RECURSIVE StoredDocs(_)
StoredDocs(docs) ==
    IF docs = <<>> THEN <<>> ELSE <<StoredDoc(Head(docs))>> \o StoredDocs(Tail(docs))

\* Array.from(uniqueDocs.values()): the `doc` of each result kept by the Map
SearchNow(idx, query) == StoredDocs(FlattenResults(<<>>, DocumentSearch(idx, query)))

----------------------------------------------------------------------------
(* Initial state: a fresh install, the module of db.js just evaluated *)

NoRet == [op |-> "none", arg |-> <<>>, ok |-> TRUE, out |-> <<>>]
NoRead == [ok |-> TRUE, rows |-> <<>>]
IdleSearch == [pc |-> "idle", query |-> <<>>, read |-> NoRead, after |-> {}]
\* no initializeGenerativeModel call is in flight
IdleInit == [pc |-> "idle", caller |-> "none", apiKey |-> <<>>, next |-> 0, tried |-> <<>>]
\* #notes-list-container as the page delivers it
NotRendered == [ok |-> TRUE, ids |-> <<>>]

\* the two versions of the quiz page: lines 1-200 and lines 206-375 of page-quiz.js
QuizVersions == {"first", "second"}

\* the two versions of showModal and hideModal: ui-common.js (lines 28-74) and
\* unnamed/part_004 (lines 244-279); only the second exports the goHome that the
\* second version of the quiz page imports
ModalVersions == {"ui-common", "part_004"}

\* the content elements of the modal: the results of a quiz, the note editor and
\* the quiz selection
ContentIds == {"results-content", "new-note-content", "quiz-selection-content"}

\* a fresh install but for the question table and the version of the quiz page
InitSession ==
    /\ settings = {}
    /\ questionSearchIndex = None
    /\ flexLoaded \in BOOLEAN
    /\ dbOpen \in BOOLEAN
    /\ pc = "start"
    /\ fetchedQs = JsUndefined
    /\ startupRead = NoRead
    /\ search = IdleSearch
    /\ ret = NoRet
    /\ log = IF dbOpen THEN {} ELSE {"DB_INIT_CRITICAL"}
    /\ overlayDismissed = FALSE
    /\ fetchResult = "none"
    /\ bootstrapPut = "none"
    /\ added = {}
    /\ lastSet = [k \in SettingKeys |-> None]
    /\ quizResults = {}
    /\ resultKey = 0
    /\ givenIds = <<>>
    /\ notes = {}
    /\ noteKey = 0
    /\ notesList = NotRendered
    /\ clock = 0
    /\ indexBuilt = FALSE
    /\ fetchedWhileEmpty = FALSE
    /\ quizPc = "home"
    /\ currentQuestions = <<>>
    /\ currentQuestionIndex = 0
    /\ userAnswers = {}
    /\ quizRunResults = <<>>
    /\ completedRuns = 0
    /\ saveCalls = 0
    /\ writers = <<>>
    /\ tableBefore = {}
    /\ genAI = None
    /\ activeModelName = None
    /\ aiInit = IdleInit
    /\ selectedUnder = None
    /\ initResult = None
    /\ aiRun = None
    /\ modalHidden = TRUE
    /\ modalFaded = TRUE
    /\ activeModalContentId = None
    /\ visibleContent = {}
    /\ inContainer = IF modalVersion = "part_004" THEN ContentIds ELSE {}
    /\ hideTimers = 0
    /\ shownSince = None
    /\ quizFetch = None
    /\ nextOnclick = "none"
    /\ shownOptions = None
    /\ indexUse = None

\* the page runs the version of page-quiz.js whose import db.js satisfies: db.js
\* exports getQuestions (line 79) and no getQuestionsForQuiz
Init ==
    /\ questions = {}
    /\ quizVersion = "second"
    /\ aiVersion = "first"
    /\ modalVersion = "part_004"
    /\ InitSession

\* no call's result is waiting to be taken by its caller
Returned == ret = NoRet

settingsVars == <<settings, lastSet>>
resultVars == <<quizResults, resultKey, givenIds>>
noteVars == <<notes, noteKey, notesList, clock>>
sessionVars == <<flexLoaded, dbOpen>>
startupVars == <<pc, fetchedQs, startupRead, overlayDismissed, fetchResult, bootstrapPut>>
writeVars == <<writers, tableBefore>>
aiVars == <<aiVersion, genAI, activeModelName, aiInit, selectedUnder, initResult, aiRun>>
modalVars == <<modalVersion, modalHidden, modalFaded, activeModalContentId, visibleContent,
               inContainer, hideTimers, shownSince>>
quizVars == <<quizVersion, quizPc, currentQuestions, currentQuestionIndex, userAnswers,
              quizRunResults, completedRuns, saveCalls, quizFetch, nextOnclick,
              shownOptions, indexUse>>

----------------------------------------------------------------------------
(* core.js: fetchInitialQuestions *)

\* fetch() rejects, the status is not OK or the body does not parse; or the body
\* parses to some JSON value
FetchOutcomes ==
    {[ok |-> FALSE, body |-> JsUndefined]} \cup {[ok |-> TRUE, body |-> v] : v \in JsonValues}

\* try { fetch; return await response.json() } catch { logError(...); return [] }
FetchInitialQuestionsSilent(outcome) ==
    [threw |-> FALSE, value |-> IF outcome.ok THEN outcome.body ELSE JsList(<<>>),
     logged |-> {}]
FetchInitialQuestions(outcome) ==
    IF outcome.ok
    THEN [threw |-> FALSE, value |-> outcome.body, logged |-> {}]
    ELSE [threw |-> FALSE, value |-> JsList(<<>>), logged |-> {"INITIAL_DATA_FETCH_FAIL"}]

----------------------------------------------------------------------------
(* db.js: the DOMContentLoaded handler: initializeDatabase, populateSearchIndex, overlay *)

\* if (questions && questions.length > 0)
HasItems(v) == Truthy(v) /\ v.length # None /\ v.length[1] > 0

\* if (count === 0)
NeedsBootstrapAlways(count) == TRUE
NeedsBootstrapNever(count) == FALSE
NeedsBootstrap(count) == count = 0

\* the catch of initializeDatabase swallows: the handler goes on to populateSearchIndex
AfterBootstrapErrorEscapes == "escaped"
AfterBootstrapError == "populate"

\* const count = await db.questions.count(); if (count === 0) ...
InitializeCount ==
    /\ Returned
    /\ pc = "start"
    /\ \E ok \in StoreOutcomes :
        IF ~ok
        THEN /\ log' = log \cup {"DB_BOOTSTRAP_FAIL"}
             /\ pc' = AfterBootstrapError
        ELSE /\ log' = log
             /\ pc' = IF NeedsBootstrap(Cardinality(questions)) THEN "fetch" ELSE "populate"
    /\ UNCHANGED <<questions, questionSearchIndex, fetchedQs, startupRead, search, ret,
                   overlayDismissed, fetchResult, bootstrapPut, added, settingsVars, sessionVars, modalVars, aiVars, writeVars, quizVars,
                   resultVars, noteVars, indexBuilt, fetchedWhileEmpty>>

\* const questions = await fetchInitialQuestions(); if (questions && questions.length > 0)
InitializeFetch ==
    /\ Returned
    /\ pc = "fetch"
    /\ \E outcome \in FetchOutcomes :
        LET r == FetchInitialQuestions(outcome) IN
        /\ fetchResult' = IF outcome.ok THEN "ok" ELSE "failed"
        /\ IF r.threw
           THEN /\ log' = log \cup r.logged \cup {"DB_BOOTSTRAP_FAIL"}
                /\ pc' = AfterBootstrapError
                /\ fetchedQs' = fetchedQs
           ELSE /\ log' = log \cup r.logged
                /\ fetchedQs' = r.value
                /\ pc' = IF HasItems(r.value) THEN "bulkPut" ELSE "populate"
    /\ fetchedWhileEmpty' = (questions = {})
    /\ UNCHANGED <<questions, questionSearchIndex, startupRead, search, ret,
                   overlayDismissed, bootstrapPut, added, settingsVars, sessionVars, modalVars, aiVars, writeVars, quizVars,
                   resultVars, noteVars, indexBuilt>>

\* await db.questions.bulkPut(questions), inside the try of initializeDatabase; the
\* elements of a string are characters, which a table keyed by `id` cannot hold
InitializeBulkPut ==
    /\ Returned
    /\ pc = "bulkPut"
    /\ \E ok \in StoreOutcomes :
        IF ok /\ fetchedQs.type = "list"
        THEN /\ questions' = BulkPut(questions, fetchedQs.items)
             /\ added' = {r \in added : r.id \notin SeqIds(fetchedQs.items)}
             /\ bootstrapPut' = "ok"
             /\ log' = log
             /\ pc' = "populate"
        ELSE /\ log' = log \cup {"DB_BOOTSTRAP_FAIL"}
             /\ bootstrapPut' = "failed"
             /\ pc' = AfterBootstrapError
             /\ UNCHANGED <<questions, added>>
    /\ fetchedWhileEmpty' = (fetchedWhileEmpty /\ questions' = {})
    /\ UNCHANGED <<questionSearchIndex, fetchedQs, startupRead, search, ret,
                   overlayDismissed, fetchResult, settingsVars, sessionVars, modalVars, aiVars, writeVars, quizVars, resultVars,
                   noteVars, indexBuilt>>

\* no index is ever created
SetupFlexSearchIndexNever(idx) == idx

\* setupFlexSearchIndex under `if (!questionSearchIndex)`
SetupFlexSearchIndex(idx) == IF idx = None /\ flexLoaded THEN Some(<<>>) ELSE idx

\* the request db.questions.toArray() reads the table as it is when it is issued
ReadAll(ok) == [ok |-> ok, rows |-> IF ok THEN ToArray(questions) ELSE <<>>]

\* a forEach that the first row without explanation ends
PopulateRowsDereference(idx, read) ==
    IF read.ok
    THEN LET reached == {n \in 0..Len(read.rows) :
                            \A i \in 1..n : read.rows[i].explanation # <<>>}
             last == CHOOSE n \in reached : \A m \in reached : m <= n
         IN  <<IndexAddAll(idx[1], SubSeq(read.rows, 1, last))>>
    ELSE idx

\* a forEach that stops after the first row
PopulateRowsFirstOnly(idx, read) ==
    IF read.ok THEN Some(IndexAddAll(idx[1], FirstN(read.rows, 1))) ELSE idx

\* the forEach of populateSearchIndex on the rows read, or its catch
PopulateRows(idx, read) == IF read.ok THEN Some(IndexAddAll(idx[1], read.rows)) ELSE idx
PopulateLog(read) == IF read.ok THEN {} ELSE {"SEARCH_INDEX_POPULATE_FAIL"}

\* populateSearchIndex of the handler, up to its await
PopulateStart ==
    /\ Returned
    /\ pc = "populate"
    /\ questionSearchIndex' = SetupFlexSearchIndex(questionSearchIndex)
    /\ IF questionSearchIndex' = None
       THEN pc' = "overlay" /\ startupRead' = startupRead
       ELSE \E ok \in StoreOutcomes : startupRead' = ReadAll(ok) /\ pc' = "indexing"
    /\ UNCHANGED <<questions, fetchedQs, search, ret, log, overlayDismissed, fetchResult,
                   bootstrapPut, added, settingsVars, sessionVars, modalVars, aiVars, writeVars, quizVars,
                   resultVars, noteVars, indexBuilt, fetchedWhileEmpty>>

\* populateSearchIndex of the handler, after its await
PopulateFinish ==
    /\ Returned
    /\ pc = "indexing"
    /\ questionSearchIndex' = PopulateRows(questionSearchIndex, startupRead)
    /\ log' = log \cup PopulateLog(startupRead)
    /\ startupRead' = NoRead
    /\ indexBuilt' = (indexBuilt \/ startupRead.ok)
    /\ pc' = "overlay"
    /\ UNCHANGED <<questions, fetchedQs, search, ret, overlayDismissed, fetchResult,
                   bootstrapPut, added, settingsVars, sessionVars, modalVars, aiVars, writeVars, quizVars,
                   resultVars, noteVars, fetchedWhileEmpty>>

\* overlay.classList.add('opacity-0')
DismissOverlay ==
    /\ Returned
    /\ pc = "overlay"
    /\ overlayDismissed' = TRUE
    /\ pc' = "ready"
    /\ UNCHANGED <<questions, questionSearchIndex, fetchedQs, startupRead, search, ret, log,
                   fetchResult, bootstrapPut, added, settingsVars, sessionVars, modalVars, aiVars, writeVars, quizVars,
                   resultVars, noteVars, indexBuilt, fetchedWhileEmpty>>

\* the page is loaded again: module state is fresh, the tables are kept
Reload ==
    /\ Returned
    /\ questionSearchIndex' = None
    /\ flexLoaded' \in BOOLEAN
    /\ dbOpen' \in BOOLEAN
    /\ pc' = "start"
    /\ fetchedQs' = JsUndefined
    /\ startupRead' = NoRead
    /\ search' = IdleSearch
    /\ ret' = NoRet
    /\ log' = IF dbOpen' THEN {} ELSE {"DB_INIT_CRITICAL"}
    /\ overlayDismissed' = FALSE
    /\ fetchResult' = "none"
    /\ bootstrapPut' = "none"
    /\ added' = {}
    /\ givenIds' = <<>>
    /\ notesList' = NotRendered
    /\ indexBuilt' = FALSE
    /\ quizPc' = "home"
    /\ currentQuestions' = <<>>
    /\ currentQuestionIndex' = 0
    /\ userAnswers' = {}
    /\ quizRunResults' = <<>>
    /\ writers' = <<>>
    /\ tableBefore' = {}
    /\ genAI' = None
    /\ activeModelName' = None
    /\ aiInit' = IdleInit
    /\ selectedUnder' = None
    /\ initResult' = None
    /\ aiRun' = None
    /\ modalHidden' = TRUE
    /\ modalFaded' = TRUE
    /\ activeModalContentId' = None
    /\ visibleContent' = {}
    /\ inContainer' = IF modalVersion = "part_004" THEN ContentIds ELSE {}
    /\ hideTimers' = 0
    /\ shownSince' = None
    /\ quizFetch' = None
    /\ nextOnclick' = "none"
    /\ shownOptions' = None
    /\ indexUse' = None
    /\ UNCHANGED <<questions, settingsVars, quizResults, resultKey, notes, noteKey, clock,
                   fetchedWhileEmpty, quizVersion, completedRuns, saveCalls, aiVersion,
                   modalVersion>>

----------------------------------------------------------------------------
(* db.js: data access functions on the question table and the index *)

\* getQuestions: where({ subject }), then filter on topic when topic is truthy
GetQuestionsRowsAnyTopic(table, subject, topic) ==
    ToArray({q \in table : q.subject = subject})
GetQuestionsRows(table, subject, topic) ==
    ToArray({q \in table : q.subject = subject /\ (topic # "" => q.topic = topic)})

GetQuestions ==
    /\ Returned
    /\ \E subject \in Subjects, topic \in Topics, ok \in StoreOutcomes :
        ret' = [op |-> "getQuestions", arg |-> <<subject, topic>>, ok |-> ok,
                out |-> IF ok THEN GetQuestionsRows(questions, subject, topic) ELSE <<>>]
    /\ UNCHANGED <<questions, questionSearchIndex, search, log, added, startupVars,
                   settingsVars, sessionVars, modalVars, aiVars, writeVars, quizVars,
                   resultVars, noteVars, indexBuilt, fetchedWhileEmpty>>

\* addQuestions: return await db.questions.bulkPut(questions)
AddQuestions ==
    /\ Returned
    /\ \E batch \in Batches, ok \in StoreOutcomes :
        IF ok
        THEN \E committed \in BulkPutCommits(batch) :
             /\ questions' = BulkPut(questions, committed)
             /\ added' = {r \in added : r.id \notin SeqIds(committed)}
                              \cup LastPerId(committed)
             /\ ret' = IF committed = batch
                       THEN [op |-> "addQuestions", arg |-> batch, ok |-> TRUE,
                             writeOk |-> TRUE, out |-> batch[Len(batch)].id]
                       ELSE [op |-> "addQuestions", arg |-> batch, ok |-> FALSE,
                             writeOk |-> FALSE, out |-> <<>>]
        ELSE /\ ret' = [op |-> "addQuestions", arg |-> batch, ok |-> FALSE,
                        writeOk |-> FALSE, out |-> <<>>]
             /\ UNCHANGED <<questions, added>>
    /\ fetchedWhileEmpty' = (fetchedWhileEmpty /\ questions' = {})
    /\ UNCHANGED <<questionSearchIndex, search, log, startupVars, settingsVars, sessionVars, modalVars, aiVars, writeVars, quizVars,
                   resultVars, noteVars, indexBuilt>>

\* addQuestions calls that overlap.  Each call is one bulkPut, which puts its rows
\* in list order in a transaction of its own; IndexedDB runs the transactions on
\* one table one after the other, and the puts of two calls are let interleave
\* here, which covers that order and every other.  A record without key fails its
\* put: the call rejects, and the bulkPut stops there or goes on with the rest
NewWriter(batch, ok) ==
    [rows |-> batch, next |-> 1, failed |-> ~ok, done |-> ~ok, cut |-> FALSE]

\* addQuestions(batch) is called; a call is in flight already or none is
BeginAddQuestions ==
    /\ Returned
    /\ Len(writers) < 2
    /\ \A i \in DOMAIN writers : ~writers[i].done
    /\ \E batch \in Batches, ok \in StoreOutcomes :
        writers' = Append(writers, NewWriter(batch, ok))
    /\ tableBefore' = IF writers = <<>> THEN questions ELSE tableBefore
    /\ UNCHANGED <<questions, questionSearchIndex, search, ret, log, added, startupVars,
                   settingsVars, sessionVars, modalVars, aiVars, quizVars, resultVars, noteVars, indexBuilt,
                   fetchedWhileEmpty>>

\* a writer that has put some but not all of its rows
MidWay(w) == ~w.done /\ w.next > 1

\* the store performs the next put of a call in flight
PutNext ==
    /\ Returned
    /\ \E i \in DOMAIN writers :
        LET w == writers[i]
            row == w.rows[w.next]
            others == [j \in DOMAIN writers |->
                          IF j # i /\ MidWay(writers[j])
                          THEN [writers[j] EXCEPT !.cut = TRUE] ELSE writers[j]]
        IN /\ ~w.done
           /\ IF HasKey(row)
              THEN /\ questions' = Put(questions, row)
                   /\ added' = {r \in added : r.id # row.id} \cup {row}
                   /\ writers' = [others EXCEPT ![i] =
                                     [w EXCEPT !.next = w.next + 1,
                                               !.done = (w.next = Len(w.rows))]]
              ELSE /\ UNCHANGED <<questions, added>>
                   /\ \E stops \in BOOLEAN :
                        writers' = [writers EXCEPT ![i] =
                                       [w EXCEPT !.failed = TRUE,
                                                 !.next = IF stops THEN w.next ELSE w.next + 1,
                                                 !.done = (stops \/ w.next = Len(w.rows))]]
    /\ fetchedWhileEmpty' = (fetchedWhileEmpty /\ questions' = {})
    /\ UNCHANGED <<questionSearchIndex, search, ret, log, startupVars, settingsVars,
                   sessionVars, modalVars, aiVars, quizVars, resultVars, noteVars, indexBuilt, tableBefore>>

\* every call in flight has settled and its caller has taken the outcome
WritersReturn ==
    /\ Returned
    /\ writers # <<>>
    /\ \A i \in DOMAIN writers : writers[i].done
    /\ writers' = <<>>
    /\ tableBefore' = {}
    /\ UNCHANGED <<questions, questionSearchIndex, search, ret, log, added, startupVars,
                   settingsVars, sessionVars, modalVars, aiVars, quizVars, resultVars, noteVars, indexBuilt,
                   fetchedWhileEmpty>>

\* lines 60-73: try { search; flatten; return flatResults } catch (e) { return [] }
TrySearchNoCatch(idx, query, throws) ==
    IF throws THEN [ok |-> FALSE, out |-> <<>>]
    ELSE [ok |-> TRUE, out |-> SearchNow(idx, query)]
TrySearch(idx, query, throws) ==
    IF throws THEN [ok |-> TRUE, out |-> <<>>]
    ELSE [ok |-> TRUE, out |-> SearchNow(idx, query)]

\* what fullTextSearchQuestions hands to its caller; built: this call ran the
\* index build; threw: questionSearchIndex.search threw
SearchRet(query, idx, after, built, throws) ==
    [op |-> "search", arg |-> query, ok |-> TrySearch(idx, query, throws).ok,
     out |-> TrySearch(idx, query, throws).out,
     groups |-> IF throws THEN <<>> ELSE DocumentSearch(idx, query),
     after |-> after, built |-> built, threw |-> throws]

\* fullTextSearchQuestions(query), up to its return or to the await inside populateSearchIndex
FullTextSearchCall ==
    /\ Returned
    /\ search.pc = "idle"
    /\ \E query \in Queries :
        IF questionSearchIndex # None
        THEN /\ \E throws \in BOOLEAN :
                  ret' = SearchRet(query, questionSearchIndex[1], added, FALSE, throws)
             /\ UNCHANGED <<questionSearchIndex, search>>
        ELSE /\ questionSearchIndex' = SetupFlexSearchIndex(questionSearchIndex)
             /\ IF questionSearchIndex' = None
                THEN /\ ret' = [op |-> "search", arg |-> query, ok |-> TRUE, out |-> <<>>,
                                groups |-> <<>>, after |-> added, built |-> FALSE,
                                threw |-> FALSE]
                     /\ search' = search
                ELSE /\ \E ok \in StoreOutcomes :
                          search' = [pc |-> "indexing", query |-> query,
                                     read |-> ReadAll(ok), after |-> added]
                     /\ ret' = ret
    /\ UNCHANGED <<questions, log, added, startupVars, settingsVars, sessionVars, modalVars, aiVars, writeVars, quizVars,
                   resultVars, noteVars, indexBuilt, fetchedWhileEmpty>>

\* fullTextSearchQuestions after `await populateSearchIndex()`
FullTextSearchResume ==
    /\ Returned
    /\ search.pc = "indexing"
    /\ questionSearchIndex' = PopulateRows(questionSearchIndex, search.read)
    /\ log' = log \cup PopulateLog(search.read)
    /\ \E throws \in BOOLEAN :
        ret' = SearchRet(search.query, questionSearchIndex'[1], search.after, TRUE, throws)
    /\ search' = IdleSearch
    /\ indexBuilt' = (indexBuilt \/ search.read.ok)
    /\ UNCHANGED <<questions, added, startupVars, settingsVars, sessionVars, modalVars, aiVars, writeVars, quizVars,
                   resultVars, noteVars, fetchedWhileEmpty>>

----------------------------------------------------------------------------
(* db.js: settings *)

\* db.settings.put({ key, value }) on a table whose primary key is `key`
PutSettingWipe(table, row) == {row}
PutSetting(table, row) == {r \in table : r.key # row.key} \cup {row}

\* getSetting: try { record = await get(key); record ? record.value : null } catch { null }
GetSettingNoCatch(table, key, readOk) ==
    IF ~readOk THEN [ok |-> FALSE, out |-> None]
    ELSE IF \E r \in table : r.key = key
         THEN [ok |-> TRUE, out |-> Some((CHOOSE r \in table : r.key = key).value)]
         ELSE [ok |-> TRUE, out |-> None]
GetSettingResult(table, key, readOk) ==
    IF ~readOk THEN [ok |-> TRUE, out |-> None]
    ELSE IF \E r \in table : r.key = key
         THEN [ok |-> TRUE, out |-> Some((CHOOSE r \in table : r.key = key).value)]
         ELSE [ok |-> TRUE, out |-> None]

GetSetting ==
    /\ Returned
    /\ \E key \in SettingKeys, readOk \in StoreOutcomes :
        LET r == GetSettingResult(settings, key, readOk) IN
        ret' = [op |-> "getSetting", arg |-> key, ok |-> r.ok, out |-> r.out,
                readOk |-> readOk]
    /\ UNCHANGED <<questions, questionSearchIndex, search, log, added, startupVars,
                   settingsVars, sessionVars, modalVars, aiVars, writeVars, quizVars,
                   resultVars, noteVars, indexBuilt, fetchedWhileEmpty>>

\* setSetting: return await db.settings.put({ key, value })
SetSetting ==
    /\ Returned
    /\ \E key \in SettingKeys, value \in SettingValues, ok \in StoreOutcomes :
        IF ok
        THEN /\ settings' = PutSetting(settings, [key |-> key, value |-> value])
             /\ lastSet' = [lastSet EXCEPT ![key] = Some(value)]
             /\ ret' = [op |-> "setSetting", arg |-> <<key, value>>, ok |-> TRUE, out |-> key]
        ELSE /\ ret' = [op |-> "setSetting", arg |-> <<key, value>>, ok |-> FALSE,
                        out |-> <<>>]
             /\ UNCHANGED settingsVars
    /\ UNCHANGED <<questions, questionSearchIndex, search, log, added, startupVars,
                   sessionVars, modalVars, aiVars, writeVars, quizVars,
                   resultVars, noteVars, indexBuilt, fetchedWhileEmpty>>

----------------------------------------------------------------------------
(* db.js: quiz results *)

\* the key generator of a '++id' table: the next key is one above the last one
NextKey(key) == key + 1

\* db.quizResults.add(result) for a result without id: the row is stored under a
\* generated key; add never replaces a row
AddResultFixedKey(table, key, result) ==
    [table |-> {r \in table : r.id # 1} \cup {[id |-> 1, result |-> result]},
     key |-> 1, id |-> 1]
AddResult(table, key, result) ==
    [table |-> table \cup {[id |-> NextKey(key), result |-> result]},
     key |-> NextKey(key), id |-> NextKey(key)]

\* saveQuizResult: return await db.quizResults.add(result)
SaveQuizResult ==
    /\ Returned
    /\ resultKey < MaxResults
    /\ \E result \in QuizOutcomes, ok \in StoreOutcomes :
        IF ok
        THEN /\ quizResults' = AddResult(quizResults, resultKey, result).table
             /\ resultKey' = AddResult(quizResults, resultKey, result).key
             /\ givenIds' = Append(givenIds, AddResult(quizResults, resultKey, result).id)
             /\ ret' = [op |-> "saveQuizResult", arg |-> <<result>>, ok |-> TRUE,
                        writeOk |-> TRUE,
                        out |-> Some(AddResult(quizResults, resultKey, result).id)]
        ELSE /\ ret' = [op |-> "saveQuizResult", arg |-> <<result>>, ok |-> FALSE,
                        writeOk |-> FALSE, out |-> None]
             /\ UNCHANGED resultVars
    /\ UNCHANGED <<questions, questionSearchIndex, search, log, added, startupVars,
                   settingsVars, sessionVars, modalVars, aiVars, writeVars, quizVars, noteVars, indexBuilt, fetchedWhileEmpty>>

----------------------------------------------------------------------------
(* ui-common.js and unnamed/part_004: the unified modal *)

\* the state of the modal
Modal ==
    [hidden |-> modalHidden, faded |-> modalFaded, active |-> activeModalContentId,
     visible |-> visibleContent, inside |-> inContainer, timers |-> hideTimers,
     shown |-> shownSince, failed |-> FALSE]

\* an id that no element of the document carries
MissingContentId == "missing-content"

\* showModal(contentId).  ui-common.js (lines 28-49): without the element the call
\* is logged and changes nothing; else the active content is hidden, the content is
\* moved into the container and shown, it becomes the active content, and backdrop
\* and container lose hidden and opacity-0.  part_004 (lines 244-260): without the
\* element nothing happens; else backdrop and container lose hidden and opacity-0,
\* every child of the container is hidden and the content is shown
ShowModalResult(version, m, contentId) ==
    IF contentId \notin ContentIds
    THEN [m EXCEPT !.failed = (version = "ui-common")]
    ELSE IF version = "ui-common"
    THEN [m EXCEPT !.visible = (m.visible \ Range(m.active)) \cup {contentId},
                   !.inside = m.inside \cup {contentId},
                   !.active = Some(contentId),
                   !.hidden = FALSE,
                   !.faded = FALSE,
                   !.shown = Some(contentId)]
    ELSE [m EXCEPT !.hidden = FALSE,
                   !.faded = FALSE,
                   !.visible = (m.visible \ m.inside) \cup {contentId},
                   !.shown = Some(contentId)]

\* hideModal().  ui-common.js (lines 54-74): the active content goes back to the
\* body and is hidden, backdrop and container get opacity-0, and a timer of 300 ms
\* is set.  part_004 (lines 262-279): backdrop and container get opacity-0 and a
\* timer of 300 ms is set
HideModalResult(version, m) ==
    IF version = "ui-common"
    THEN [m EXCEPT !.inside = m.inside \ Range(m.active),
                   !.visible = m.visible \ Range(m.active),
                   !.faded = TRUE,
                   !.timers = m.timers + 1,
                   !.shown = None]
    ELSE [m EXCEPT !.faded = TRUE,
                   !.timers = m.timers + 1,
                   !.shown = None]

\* the callback of the timer.  ui-common.js (lines 69-73): backdrop and container
\* get hidden and activeModalContentId becomes null.  part_004 (lines 270-277):
\* backdrop and container get hidden and so does every child of the container
HideTimerResult(version, m) ==
    IF version = "ui-common"
    THEN [m EXCEPT !.hidden = TRUE, !.active = None, !.timers = m.timers - 1]
    ELSE [m EXCEPT !.hidden = TRUE,
                   !.visible = m.visible \ m.inside,
                   !.timers = m.timers - 1]

\* the modal after the step
ModalBecomes(m) ==
    /\ modalHidden' = m.hidden
    /\ modalFaded' = m.faded
    /\ activeModalContentId' = m.active
    /\ visibleContent' = m.visible
    /\ inContainer' = m.inside
    /\ hideTimers' = m.timers
    /\ shownSince' = m.shown
    /\ UNCHANGED modalVersion

\* a handler calls showModal(contentId): editNote with the note editor, the page
\* with the quiz selection, a caller with an id that the document does not hold
ShowModal ==
    /\ Returned
    /\ \E contentId \in ContentIds \cup {MissingContentId} :
        LET m == ShowModalResult(modalVersion, Modal, contentId) IN
        /\ ModalBecomes(m)
        /\ log' = IF m.failed THEN log \cup {"UI_MODAL_SHOW_FAIL"} ELSE log
    /\ UNCHANGED <<questions, questionSearchIndex, search, ret, added, startupVars,
                   settingsVars, sessionVars, aiVars, writeVars, quizVars, resultVars,
                   noteVars, indexBuilt, fetchedWhileEmpty>>

\* hideModal() as the handler of a click: on the backdrop (ui-common.js line 21), on
\* "Review Dashboard" (page-quiz.js line 195), in the dialogs of page-selection.js
HideModal ==
    /\ Returned
    /\ hideTimers < MaxTimers
    /\ ModalBecomes(HideModalResult(modalVersion, Modal))
    /\ UNCHANGED <<questions, questionSearchIndex, search, ret, log, added, startupVars,
                   settingsVars, sessionVars, aiVars, writeVars, quizVars, resultVars,
                   noteVars, indexBuilt, fetchedWhileEmpty>>

\* 300 ms after a hideModal call its timer fires, whatever was called in between
HideTimerFires ==
    /\ Returned
    /\ hideTimers > 0
    /\ ModalBecomes(HideTimerResult(modalVersion, Modal))
    /\ UNCHANGED <<questions, questionSearchIndex, search, ret, log, added, startupVars,
                   settingsVars, sessionVars, aiVars, writeVars, quizVars, resultVars,
                   noteVars, indexBuilt, fetchedWhileEmpty>>

----------------------------------------------------------------------------
(* core.js: scoring; page-quiz.js: the quiz page in its two versions *)

\* userSelections.get(question.id) || [] / userAnswers[q.id] || []
SelectionsOf(answers, id) == {a[2] : a \in {p \in answers : p[1] = id}}

OptionIds(question) == {question.options[i].id : i \in DOMAIN question.options}

\* [...new Set(list)]: the first occurrence of each element, in order
RECURSIVE Unique(_)
Unique(list) ==
    IF list = <<>> THEN <<>>
    ELSE LET init == Unique(SubSeq(list, 1, Len(list) - 1))
             last == list[Len(list)]
         IN IF last \in Range(init) THEN init ELSE Append(init, last)

\* question.options.filter(opt => opt.is_correct === true).map(opt => opt.id)
CorrectOptions(question) ==
    LET marked == SelectSeq(question.options, LAMBDA opt : opt.is_correct)
    IN [i \in DOMAIN marked |-> marked[i].id]

\* a grading that asks only that every selected option is marked correct
CalculateScoreEvery(question, userSelections) ==
    LET correctOptions == CorrectOptions(question)
        userSet == Range(userSelections)
        correctSet == Range(correctOptions)
    IN IF \A id \in userSet : id \in correctSet
       THEN [score |-> 1, isCorrect |-> TRUE, mistakes |-> <<>>]
       ELSE [score |-> 0, isCorrect |-> FALSE,
             mistakes |-> Unique(SelectSeq(correctOptions, LAMBDA id : id \notin userSet)
                                 \o SelectSeq(userSelections,
                                              LAMBDA id : id \notin correctSet))]

\* calculateScore(question, userSelections): score 1 when the set of the selections
\* has the size of the set of the options marked correct and lies within it; else
\* the missed and then the wrongly chosen options, each once
CalculateScore(question, userSelections) ==
    LET correctOptions == CorrectOptions(question)
        userSet == Range(userSelections)
        correctSet == Range(correctOptions)
    IN IF /\ Cardinality(userSet) = Cardinality(correctSet)
          /\ \A id \in userSet : id \in correctSet
       THEN [score |-> 1, isCorrect |-> TRUE, mistakes |-> <<>>]
       ELSE [score |-> 0, isCorrect |-> FALSE,
             mistakes |-> Unique(SelectSeq(correctOptions, LAMBDA id : id \notin userSet)
                                 \o SelectSeq(userSelections,
                                              LAMBDA id : id \notin correctSet))]

\* the array kept for a question in userSelections / userAnswers, its options
\* listed in the order of the question's options
SelectionList(question, selections) ==
    LET chosen == SelectSeq(question.options, LAMBDA opt : opt.id \in selections)
    IN [i \in DOMAIN chosen |-> chosen[i].id]

\* the entry the first version pushes for an answered question (lines 145-152); the
\* entries of the second version carry no subject and hold the mistakes under the
\* name `mistakes`, so that they have no detailedMistakes (lines 333-341)
QuestionResult(question, selections, withSubject) ==
    LET userSel == SelectionList(question, selections) IN
    [questionId |-> question.id,
     subject |-> IF withSubject THEN Some(question.subject) ELSE None,
     userSelections |-> userSel,
     isCorrect |-> CalculateScore(question, userSel).isCorrect,
     score |-> CalculateScore(question, userSel).score,
     detailedMistakes |-> IF withSubject
                          THEN Some(CalculateScore(question, userSel).mistakes)
                          ELSE None]

RECURSIVE TotalScore(_)
TotalScore(results) ==
    IF results = <<>> THEN 0
    ELSE (IF Head(results).isCorrect THEN 1 ELSE 0) + TotalScore(Tail(results))

\* the mistakesLog of aggregateQuizResults: an entry for each result that is not
\* correct; detailedMistakes: result.detailedMistakes || []
RECURSIVE MistakesLog(_)
MistakesLog(results) ==
    IF results = <<>> THEN <<>>
    ELSE (IF Head(results).isCorrect THEN <<>>
          ELSE <<[questionId |-> Head(results).questionId,
                  userSelections |-> Head(results).userSelections,
                  detailedMistakes |-> IF Head(results).detailedMistakes = None THEN <<>>
                                       ELSE Head(results).detailedMistakes[1]]>>)
         \o MistakesLog(Tail(results))

\* aggregateQuizResults: subject: quizRunResults[0]?.subject || 'Mixed'
AggregateQuizResults(results) ==
    [subject |-> IF results = <<>> THEN "Mixed"
                 ELSE IF Head(results).subject = None THEN "Mixed"
                 ELSE Head(results).subject[1],
     score |-> TotalScore(results),
     totalQuestions |-> Len(results),
     mistakes |-> MistakesLog(results)]

RECURSIVE ResultsOfAll(_, _)
ResultsOfAll(qs, answers) ==
    IF qs = <<>> THEN <<>>
    ELSE <<QuestionResult(Head(qs), SelectionsOf(answers, Head(qs).id), FALSE)>>
             \o ResultsOfAll(Tail(qs), answers)

\* the option lists and the selection lists calculateScore is applied to: options
\* "a" and "b", marked correct or not, possibly twice; selections among them and
\* "c", which no question offers, possibly repeated
GradedOptionLists ==
    UNION {[1..n -> [id : {"a", "b"}, is_correct : BOOLEAN]] : n \in 0..MaxOptions}

GradedSelectionLists == UNION {[1..n -> {"a", "b", "c"}] : n \in 0..MaxSelections}

\* a call of calculateScore(question, userSelections)
CalculateScoreCall ==
    /\ Returned
    /\ \E options \in GradedOptionLists, userSelections \in GradedSelectionLists :
          ret' = [op |-> "calculateScore", arg |-> <<[options |-> options], userSelections>>,
                  ok |-> TRUE, out |-> CalculateScore([options |-> options], userSelections)]
    /\ UNCHANGED <<questions, questionSearchIndex, search, log, added, startupVars,
                   settingsVars, sessionVars, modalVars, aiVars, writeVars, quizVars,
                   resultVars, noteVars, indexBuilt, fetchedWhileEmpty>>

\* updateNavigationButtons (lines 310-317): the handler of the button is submitQuiz
\* on the last question and nextQuestion before it
NavigationHandler(list, index) ==
    IF index = Len(list) - 1 THEN "submitQuiz" ELSE "nextQuestion"

\* the index and the length of the list at a rendering or a grading
IndexUse(list, index) == Some([index |-> index, length |-> Len(list)])

\* startNewQuiz(subject, topic), called from the selection dialog when no quiz is
\* running.  First version (lines 23-45): nothing changes before the read is
\* over; a failed read and an empty list are logged and leave the page as it is,
\* but for the list assigned; else the state is reset and the first question
\* rendered.  Second version (lines 217-233): the quiz container is shown with
\* the loading text, index and answers are reset, and getQuestions is awaited;
\* options and button of the quiz before stay as they were
StartNewQuiz ==
    /\ Returned
    /\ quizPc \in {"home", "results"}
    /\ quizFetch = None
    /\ completedRuns < MaxRuns
    /\ \E choice \in QuizChoices :
        LET rows == GetQuestionsRows(questions, choice[1], choice[2]) IN
        IF quizVersion = "first"
        THEN \E ok \in StoreOutcomes :
             IF ~ok
             THEN /\ log' = log \cup {"QUIZ_START_FETCH_FAIL"}
                  /\ UNCHANGED <<quizPc, currentQuestions, currentQuestionIndex,
                                 userAnswers, quizRunResults, quizFetch, shownOptions,
                                 indexUse>>
             ELSE IF rows = <<>>
             THEN /\ log' = log \cup {"QUIZ_START_NO_QUESTIONS"}
                  /\ currentQuestions' = rows
                  /\ UNCHANGED <<quizPc, currentQuestionIndex, userAnswers,
                                 quizRunResults, quizFetch, shownOptions, indexUse>>
             ELSE /\ currentQuestions' = rows
                  /\ currentQuestionIndex' = 0
                  /\ quizRunResults' = <<>>
                  /\ userAnswers' = {}
                  /\ quizPc' = "question"
                  /\ shownOptions' = Some(rows[1])
                  /\ indexUse' = IndexUse(rows, 0)
                  /\ log' = log
                  /\ UNCHANGED quizFetch
        ELSE /\ quizPc' = "loading"
             /\ currentQuestionIndex' = 0
             /\ userAnswers' = {}
             /\ quizFetch' = Some(choice)
             /\ UNCHANGED <<log, currentQuestions, quizRunResults, shownOptions, indexUse>>
    /\ UNCHANGED <<questions, questionSearchIndex, search, ret, added, startupVars,
                   settingsVars, sessionVars, modalVars, aiVars, writeVars, resultVars,
                   noteVars, indexBuilt, fetchedWhileEmpty, quizVersion, completedRuns,
                   saveCalls, nextOnclick>>

\* second version, startNewQuiz after its await (lines 233-248).  A failed read is
\* caught and leads home, an empty list leads home; else renderQuestion reads the
\* question at currentQuestionIndex, the index as it is by now, and
\* updateNavigationButtons sets the handler of the button.  Without a question at
\* the index renderQuestion throws, which the catch takes for a failed load
StartQuizResume ==
    /\ Returned
    /\ quizFetch # None
    /\ \E ok \in StoreOutcomes :
        LET rows == GetQuestionsRows(questions, quizFetch[1][1], quizFetch[1][2])
            list == IF ok THEN rows ELSE currentQuestions
            rendered == ok /\ rows # <<>>
            shown == rendered /\ currentQuestionIndex < Len(rows)
        IN /\ currentQuestions' = list
           /\ indexUse' = IF rendered THEN IndexUse(rows, currentQuestionIndex)
                          ELSE indexUse
           /\ IF shown
              THEN /\ shownOptions' = Some(rows[currentQuestionIndex + 1])
                   /\ nextOnclick' = NavigationHandler(rows, currentQuestionIndex)
                   /\ quizPc' = IF quizPc = "loading" THEN "question" ELSE quizPc
                   /\ UNCHANGED <<log, modalVars>>
              ELSE /\ hideTimers < MaxTimers
                   /\ log' = IF ok /\ rows = <<>> THEN log
                             ELSE log \cup {"Quiz Load Error"}
                   /\ quizPc' = "home"
                   /\ ModalBecomes(HideModalResult(modalVersion, Modal))
                   /\ UNCHANGED <<shownOptions, nextOnclick>>
    /\ quizFetch' = None
    /\ UNCHANGED <<questions, questionSearchIndex, search, ret, added, startupVars,
                   settingsVars, sessionVars, aiVars, writeVars, resultVars, noteVars,
                   indexBuilt, fetchedWhileEmpty, quizVersion, currentQuestionIndex,
                   userAnswers, quizRunResults, completedRuns, saveCalls>>

\* a click on an option that the page shows; the handler was made for the
\* question that was rendered.  First version: handleOptionSelection toggles the
\* option (a question without type gets checkboxes).  Second version:
\* toggleSelection makes it the one selected option of that question and calls
\* renderQuestion, which reads the question at currentQuestionIndex and throws
\* when there is none; the options of the quiz before stay on the page while
\* startNewQuiz awaits
SelectOption ==
    /\ Returned
    /\ shownOptions # None
    /\ quizPc \in (IF quizVersion = "first" THEN {"question"} ELSE {"question", "loading"})
    /\ LET question == shownOptions[1] IN
       \E opt \in OptionIds(question) :
           userAnswers' =
               IF quizVersion = "first"
               THEN IF <<question.id, opt>> \in userAnswers
                    THEN userAnswers \ {<<question.id, opt>>}
                    ELSE userAnswers \cup {<<question.id, opt>>}
               ELSE {p \in userAnswers : p[1] # question.id} \cup {<<question.id, opt>>}
    /\ IF quizVersion = "first"
       THEN UNCHANGED <<log, quizPc, shownOptions, indexUse>>
       ELSE /\ indexUse' = IndexUse(currentQuestions, currentQuestionIndex)
            /\ IF currentQuestionIndex < Len(currentQuestions)
               THEN /\ shownOptions' = Some(currentQuestions[currentQuestionIndex + 1])
                    /\ quizPc' = "question"
                    /\ log' = log
               ELSE /\ log' = log \cup {"TypeError"}
                    /\ UNCHANGED <<quizPc, shownOptions>>
    /\ UNCHANGED <<questions, questionSearchIndex, search, ret, added, startupVars,
                   settingsVars, sessionVars, modalVars, aiVars, writeVars, resultVars,
                   noteVars, indexBuilt, fetchedWhileEmpty, quizVersion, currentQuestions,
                   currentQuestionIndex, quizRunResults, completedRuns, saveCalls,
                   quizFetch, nextOnclick>>

\* first version, the click handler of nextButton (lines 136-165) and endQuiz up to
\* its await (lines 170-174).  The button is enabled once an option of the question
\* shown is selected and stays as it is after the last question; a click while
\* endQuiz awaits finds no question at the index: the handler throws
NextClick ==
    /\ Returned
    /\ quizVersion = "first"
    /\ quizPc \in {"question", "saved", "saveFailed"}
    /\ IF currentQuestionIndex >= Len(currentQuestions)
       THEN /\ log' = log \cup {"TypeError"}
            /\ indexUse' = IndexUse(currentQuestions, currentQuestionIndex)
            /\ UNCHANGED <<quizPc, currentQuestionIndex, quizRunResults, completedRuns,
                           saveCalls, resultVars, shownOptions>>
       ELSE LET question == currentQuestions[currentQuestionIndex + 1]
                selections == SelectionsOf(userAnswers, question.id)
                results == Append(quizRunResults,
                                  QuestionResult(question, selections, TRUE))
                saved == AddResult(quizResults, resultKey, AggregateQuizResults(results))
            IN /\ selections # {}
               /\ quizRunResults' = results
               /\ currentQuestionIndex' = currentQuestionIndex + 1
               /\ log' = log
               /\ IF currentQuestionIndex' < Len(currentQuestions)
                  THEN /\ shownOptions' = Some(currentQuestions[currentQuestionIndex' + 1])
                       /\ indexUse' = IndexUse(currentQuestions, currentQuestionIndex')
                       /\ UNCHANGED <<quizPc, completedRuns, saveCalls, resultVars>>
                  ELSE /\ completedRuns' = completedRuns + 1
                       /\ saveCalls' = saveCalls + 1
                       /\ indexUse' = IndexUse(currentQuestions, currentQuestionIndex)
                       /\ shownOptions' = shownOptions
                       /\ \E ok \in StoreOutcomes :
                            IF ok
                            THEN /\ quizResults' = saved.table
                                 /\ resultKey' = saved.key
                                 /\ givenIds' = Append(givenIds, saved.id)
                                 /\ quizPc' = "saved"
                            ELSE /\ quizPc' = "saveFailed"
                                 /\ UNCHANGED resultVars
    /\ UNCHANGED <<questions, questionSearchIndex, search, ret, added, startupVars,
                   settingsVars, sessionVars, modalVars, aiVars, writeVars, noteVars,
                   indexBuilt, fetchedWhileEmpty, quizVersion, currentQuestions,
                   userAnswers, quizFetch, nextOnclick>>

\* first version, endQuiz after its await (lines 174-183): displayResults, after
\* logError in the catch, shows the results in the modal; finally the quiz
\* container is hidden
EndQuizResume ==
    /\ Returned
    /\ quizPc \in {"saved", "saveFailed"}
    /\ log' = IF quizPc = "saveFailed" THEN log \cup {"QUIZ_SAVE_RESULT_FAIL"} ELSE log
    /\ quizPc' = "results"
    /\ ModalBecomes(ShowModalResult(modalVersion, Modal, "results-content"))
    /\ UNCHANGED <<questions, questionSearchIndex, search, ret, added, startupVars,
                   settingsVars, sessionVars, aiVars, writeVars, resultVars, noteVars,
                   indexBuilt, fetchedWhileEmpty, quizVersion, currentQuestions,
                   currentQuestionIndex, userAnswers, quizRunResults, completedRuns,
                   saveCalls, quizFetch, nextOnclick, shownOptions, indexUse>>

\* second version, nextQuestion (lines 319-325), the handler that
\* updateNavigationButtons gave the button when the question shown was not the last
NextQuestion ==
    /\ Returned
    /\ quizVersion = "second"
    /\ quizPc \in {"question", "loading"}
    /\ nextOnclick = "nextQuestion"
    /\ IF currentQuestionIndex < Len(currentQuestions) - 1
       THEN /\ currentQuestionIndex' = currentQuestionIndex + 1
            /\ indexUse' = IndexUse(currentQuestions, currentQuestionIndex')
            /\ shownOptions' = Some(currentQuestions[currentQuestionIndex' + 1])
            /\ nextOnclick' = NavigationHandler(currentQuestions, currentQuestionIndex')
            /\ quizPc' = "question"
       ELSE UNCHANGED <<currentQuestionIndex, indexUse, shownOptions, nextOnclick, quizPc>>
    /\ UNCHANGED <<questions, questionSearchIndex, search, ret, log, added, startupVars,
                   settingsVars, sessionVars, modalVars, aiVars, writeVars, resultVars,
                   noteVars, indexBuilt, fetchedWhileEmpty, quizVersion, currentQuestions,
                   userAnswers, quizRunResults, completedRuns, saveCalls, quizFetch>>

\* what submitQuiz hands to showResultsModal
SubmitSummary == AggregateQuizResults(ResultsOfAll(currentQuestions, userAnswers))

\* second version, submitQuiz (lines 329-346), the handler that
\* updateNavigationButtons gave the button on the last question: the answers are
\* graded and showResultsModal (lines 348-370) shows the summary in the modal
SubmitQuiz ==
    /\ Returned
    /\ quizVersion = "second"
    /\ quizPc \in {"question", "loading"}
    /\ nextOnclick = "submitQuiz"
    /\ completedRuns' = completedRuns + 1
    /\ quizPc' = "results"
    /\ ModalBecomes(ShowModalResult(modalVersion, Modal, "results-content"))
    /\ UNCHANGED <<questions, questionSearchIndex, search, ret, log, added, startupVars,
                   settingsVars, sessionVars, aiVars, writeVars, resultVars, noteVars,
                   indexBuilt, fetchedWhileEmpty, quizVersion, currentQuestions,
                   currentQuestionIndex, userAnswers, quizRunResults, saveCalls,
                   quizFetch, nextOnclick, shownOptions, indexUse>>

\* second version, goHome of "Quit X" and of "Back to Dashboard" (part_004 lines
\* 282-293): hideModal is called, the quiz container is hidden and the home screen
\* shown
GoHome ==
    /\ Returned
    /\ quizVersion = "second"
    /\ quizPc \in {"question", "results"}
    /\ hideTimers < MaxTimers
    /\ quizPc' = "home"
    /\ ModalBecomes(HideModalResult(modalVersion, Modal))
    /\ UNCHANGED <<questions, questionSearchIndex, search, ret, log, added, startupVars,
                   settingsVars, sessionVars, aiVars, writeVars, resultVars, noteVars,
                   indexBuilt, fetchedWhileEmpty, quizVersion, currentQuestions,
                   currentQuestionIndex, userAnswers, quizRunResults, completedRuns,
                   saveCalls, quizFetch, nextOnclick, shownOptions, indexUse>>

----------------------------------------------------------------------------
(* db.js and ui-common.js: notes *)

\* IndexedDB orders keys of different types: every number is below every string
KeyLess(a, b) == (~a.str /\ b.str) \/ (a.str = b.str /\ a.n < b.n)

\* Date.now() and new Date(): the clock does not run backwards, two reads can agree
ClockReads == {t \in {clock, clock + 1} : t <= MaxClock}

\* the rows compared by primary key only
NoteBeforeByKey(a, b) == KeyLess(b.id, a.id)

\* orderBy('timestamp').reverse().toArray(): timestamp descending, then key descending
NoteBefore(a, b) ==
    \/ KeyLess(b.timestamp, a.timestamp)
    \/ a.timestamp = b.timestamp /\ KeyLess(b.id, a.id)

RECURSIVE NotesNewestFirst(_)
NotesNewestFirst(table) ==
    IF table = {} THEN <<>>
    ELSE LET first == CHOOSE r \in table : \A o \in table \ {r} : NoteBefore(r, o)
         IN <<first>> \o NotesNewestFirst(table \ {first})

\* db.notes.put(note): insert, or replace the row of the same key
PutNote(table, row) == {r \in table : r.id # row.id} \cup {row}

\* a put or add under an explicit number key moves the key generator past it
KeyAfter(gen, key) == IF ~key.str /\ key.n > gen THEN key.n ELSE gen

\* db.js saveNote: note.timestamp = Date.now(); return await db.notes.put(note)
SaveNote ==
    /\ Returned
    /\ \E id \in {None} \cup {Some(NumKey(n)) : n \in 1..MaxNotes}, title \in NoteTitles,
          t \in ClockReads, ok \in StoreOutcomes :
        LET key == IF id = None THEN NumKey(NextKey(noteKey)) ELSE id[1]
            row == [id |-> key, title |-> title, timestamp |-> NumKey(t), source |-> None]
        IN /\ id = None => noteKey < MaxNotes
           /\ clock' = t
           /\ IF ok
              THEN /\ notes' = PutNote(notes, row)
                   /\ noteKey' = KeyAfter(noteKey, key)
                   /\ ret' = [op |-> "saveNote", arg |-> <<id, title>>, ok |-> TRUE,
                              writeOk |-> TRUE, out |-> Some(key)]
              ELSE /\ ret' = [op |-> "saveNote", arg |-> <<id, title>>, ok |-> FALSE,
                              writeOk |-> FALSE, out |-> None]
                   /\ UNCHANGED <<notes, noteKey>>
    /\ UNCHANGED <<questions, questionSearchIndex, search, log, added, startupVars,
                   settingsVars, sessionVars, modalVars, aiVars, writeVars, quizVars, resultVars, notesList, indexBuilt,
                   fetchedWhileEmpty>>

\* db.js deleteNote: return await db.notes.delete(id)
DeleteNote ==
    /\ Returned
    /\ \E id \in {NumKey(n) : n \in 1..MaxNotes}, ok \in StoreOutcomes :
        IF ok
        THEN /\ notes' = {r \in notes : r.id # id}
             /\ ret' = [op |-> "deleteNote", arg |-> <<id>>, ok |-> TRUE, writeOk |-> TRUE,
                        out |-> None]
        ELSE /\ ret' = [op |-> "deleteNote", arg |-> <<id>>, ok |-> FALSE,
                        writeOk |-> FALSE, out |-> None]
             /\ notes' = notes
    /\ UNCHANGED <<questions, questionSearchIndex, search, log, added, startupVars,
                   settingsVars, sessionVars, modalVars, aiVars, writeVars, quizVars, resultVars, noteKey, notesList, clock,
                   indexBuilt, fetchedWhileEmpty>>

\* db.js getNotes: return await db.notes.orderBy('timestamp').reverse().toArray()
GetNotes ==
    /\ Returned
    /\ \E ok \in StoreOutcomes :
        ret' = [op |-> "getNotes", arg |-> <<>>, ok |-> ok,
                out |-> IF ok THEN NotesNewestFirst(notes) ELSE <<>>]
    /\ UNCHANGED <<questions, questionSearchIndex, search, log, added, startupVars,
                   settingsVars, sessionVars, modalVars, aiVars, writeVars, quizVars, resultVars, noteVars, indexBuilt,
                   fetchedWhileEmpty>>

RECURSIVE KeysOf(_)
KeysOf(rows) == IF rows = <<>> THEN <<>> ELSE <<Head(rows).id>> \o KeysOf(Tail(rows))

\* ui-common.js renderNotesList, with the container present: the list newest first,
\* or the error paragraph when the read fails
RenderedList(table, readOk) ==
    [ok |-> readOk,
     ids |-> IF readOk THEN KeysOf(NotesNewestFirst(table)) ELSE <<>>]
RenderLog(readOk) == IF readOk THEN {} ELSE {"NOTES_RENDER_FAIL"}

\* document.addEventListener('DOMContentLoaded', renderNotesList)
RenderNotesList ==
    /\ Returned
    /\ \E readOk \in StoreOutcomes :
        /\ notesList' = RenderedList(notes, readOk)
        /\ log' = log \cup RenderLog(readOk)
    /\ UNCHANGED <<questions, questionSearchIndex, search, ret, added, startupVars,
                   settingsVars, sessionVars, modalVars, aiVars, writeVars, quizVars, resultVars, notes, noteKey, clock,
                   indexBuilt, fetchedWhileEmpty>>

\* db.notes.update(parseInt(note.id), note) with note = { title, content, id: "n" }:
\* the changes set the primary key to the string, so the row is re-added under the
\* string key and deleted under the number key; no row of that key: nothing to do.
\* The re-add fails when the string key is taken
CanUpdate(table, n) ==
    (\E r \in table : r.id = NumKey(n)) => (\A r \in table : r.id # StrKey(n))
UpdateNote(table, n, title) ==
    {r \in table : r.id # NumKey(n)}
        \cup {[r EXCEPT !.id = StrKey(n), !.title = title] : r \in {o \in table : o.id = NumKey(n)}}

\* ui-common.js saveNote: update or add inside try, then renderNotesList; the
\* catch logs NOTES_SAVE_FAIL and the function returns normally
PageSaveNote ==
    /\ Returned
    /\ \E editingId \in {None} \cup {Some(n) : n \in 1..MaxNotes}, title \in NoteTitles,
          t \in ClockReads, ok \in StoreOutcomes, readOk \in StoreOutcomes :
        LET row == [id |-> NumKey(NextKey(noteKey)), title |-> title,
                    timestamp |-> StrKey(t), source |-> Some("Manual Entry")]
            wrote == ok /\ (editingId # None => CanUpdate(notes, editingId[1]))
        IN /\ editingId = None => noteKey < MaxNotes
           /\ clock' = IF editingId = None THEN t ELSE clock
           /\ IF wrote
              THEN /\ notes' = IF editingId = None THEN notes \cup {row}
                                ELSE UpdateNote(notes, editingId[1], title)
                   /\ noteKey' = IF editingId = None THEN NextKey(noteKey) ELSE noteKey
                   /\ notesList' = RenderedList(notes', readOk)
                   /\ log' = log \cup RenderLog(readOk)
              ELSE /\ log' = log \cup {"NOTES_SAVE_FAIL"}
                   /\ UNCHANGED <<notes, noteKey, notesList>>
           /\ ret' = [op |-> "pageSaveNote", arg |-> <<editingId, title>>, ok |-> TRUE,
                      writeOk |-> wrote, out |-> None]
    /\ UNCHANGED <<questions, questionSearchIndex, search, added, startupVars,
                   settingsVars, sessionVars, modalVars, aiVars, writeVars, quizVars, resultVars, indexBuilt, fetchedWhileEmpty>>

\* ui-common.js deleteNote: after confirm(), delete(parseInt(id)) inside try, then
\* renderNotesList; the catch logs NOTES_DELETE_FAIL and the function returns normally
PageDeleteNote ==
    /\ Returned
    /\ \E n \in 1..MaxNotes, confirmed \in BOOLEAN, ok \in StoreOutcomes,
          readOk \in StoreOutcomes :
        /\ IF ~confirmed
           THEN UNCHANGED <<notes, notesList, log>>
           ELSE IF ok
           THEN /\ notes' = {r \in notes : r.id # NumKey(n)}
                /\ notesList' = RenderedList(notes', readOk)
                /\ log' = log \cup RenderLog(readOk)
           ELSE /\ log' = log \cup {"NOTES_DELETE_FAIL"}
                /\ UNCHANGED <<notes, notesList>>
        /\ ret' = [op |-> "pageDeleteNote", arg |-> <<n, confirmed>>, ok |-> TRUE,
                   writeOk |-> (~confirmed \/ ok), out |-> None]
    /\ UNCHANGED <<questions, questionSearchIndex, search, added, startupVars,
                   settingsVars, sessionVars, modalVars, aiVars, writeVars, quizVars, resultVars, noteKey, clock, indexBuilt,
                   fetchedWhileEmpty>>

----------------------------------------------------------------------------
(* ai.js: selection of the generative model *)

AiVersions == {"first", "second", "part_005"}

\* MODEL_PRIORITY_LIST of ai.js (lines 8-22), of its second copy (lines 214-219) and
\* of the copy in part_005 (lines 8-18)
MODEL_PRIORITY_LIST(version) ==
    IF version = "first"
    THEN <<"gemini-3-pro-preview", "gemini-2.5-flash-lite", "gemini-2.0-flash-thinking-exp",
           "gemini-1.5-pro", "gemini-2.0-flash-exp", "gemini-1.5-flash">>
    ELSE IF version = "second"
    THEN <<"gemini-1.5-pro", "gemini-1.5-flash", "gemini-1.0-pro", "gemini-pro">>
    ELSE <<"gemini-2.5-flash-lite", "gemini-2.5-flash", "gemini-1.5-flash-002",
           "gemini-1.5-pro-002">>

GEMINI_API_KEY_DB_KEY == "geminiApiKey"

\* a loop that goes through the whole list and returns after the last model
ProbeOutcomeNoReturn(list, next, pingOk) ==
    IF next < Len(list) THEN "continue" ELSE IF pingOk THEN "return" ELSE "exhausted"

\* the for loop over the list after the test request of list[next]: return on
\* success, the next model after a failure, the end of the loop after the last
ProbeOutcome(list, next, pingOk) ==
    IF pingOk THEN "return" ELSE IF next < Len(list) THEN "continue" ELSE "exhausted"

\* initializeGenerativeModel returns: its report goes to the caller.  A feature
\* function that called it goes on at once: it throws when no model is active and
\* else sends its request with genAI and activeModelName
InitReturns(success, keyRead, readOk, tried, active, under) ==
    /\ initResult' = Some([success |-> success, model |-> IF success THEN active ELSE None,
                           keyRead |-> keyRead, readOk |-> readOk, tried |-> tried])
    /\ aiInit' = IdleInit
    /\ activeModelName' = active
    /\ selectedUnder' = under
    /\ IF aiInit.caller = "feature"
       THEN IF active = None
            THEN /\ ret' = [op |-> "aiFeature", arg |-> <<>>, ok |-> FALSE, out |-> None]
                 /\ aiRun' = aiRun
            ELSE /\ aiRun' = Some([model |-> active[1], clientKey |-> genAI'[1],
                                   selectedUnder |-> under[1]])
                 /\ \E requestOk \in BOOLEAN :
                       ret' = [op |-> "aiFeature", arg |-> <<>>, ok |-> requestOk,
                               out |-> active]
       ELSE /\ ret' = [op |-> aiInit.caller, arg |-> <<>>, ok |-> TRUE,
                       out |-> [success |-> success,
                                model |-> IF success THEN active ELSE None]]
            /\ aiRun' = aiRun

\* saveApiKey(key): await setSetting(...), then initializeGenerativeModel(); a failed
\* write rejects the call
SaveApiKey ==
    /\ Returned
    /\ aiInit.pc = "idle"
    /\ \E key \in SettingValues, ok \in StoreOutcomes :
        IF ok
        THEN /\ settings' = PutSetting(settings, [key |-> GEMINI_API_KEY_DB_KEY, value |-> key])
             /\ lastSet' = [lastSet EXCEPT ![GEMINI_API_KEY_DB_KEY] = Some(key)]
             /\ aiInit' = [IdleInit EXCEPT !.pc = "getSetting", !.caller = "saveApiKey"]
             /\ ret' = ret
        ELSE /\ ret' = [op |-> "saveApiKey", arg |-> <<key>>, ok |-> FALSE, out |-> None]
             /\ UNCHANGED <<settingsVars, aiInit>>
    /\ UNCHANGED <<questions, questionSearchIndex, search, log, added, startupVars,
                   sessionVars, modalVars, writeVars, quizVars, resultVars, noteVars, indexBuilt,
                   fetchedWhileEmpty, aiVersion, genAI, activeModelName, selectedUnder,
                   initResult, aiRun>>

\* second copy, line 399: document.addEventListener('DOMContentLoaded',
\* initializeGenerativeModel), the first thing the module does once loaded
AutoInitialize ==
    /\ Returned
    /\ aiVersion = "second"
    /\ aiInit.pc = "idle" /\ initResult = None /\ aiRun = None
    /\ aiInit' = [IdleInit EXCEPT !.pc = "getSetting", !.caller = "load"]
    /\ UNCHANGED <<questions, questionSearchIndex, search, ret, log, added, startupVars,
                   settingsVars, sessionVars, modalVars, writeVars, quizVars, resultVars, noteVars,
                   indexBuilt, fetchedWhileEmpty, aiVersion, genAI, activeModelName,
                   selectedUnder, initResult, aiRun>>

\* a feature function (generateSocraticExplanation, generateRemixQuiz,
\* generateNotesFromDiagram, gradeMainsAnswer) is called:
\* if (!activeModelName) await initializeGenerativeModel(); else the request is sent
\* with genAI.getGenerativeModel({ model: activeModelName })
AiFeatureCall ==
    /\ Returned
    /\ aiInit.pc = "idle"
    /\ IF activeModelName = None
       THEN /\ aiInit' = [IdleInit EXCEPT !.pc = "getSetting", !.caller = "feature"]
            /\ UNCHANGED <<ret, aiRun>>
       ELSE /\ aiRun' = Some([model |-> activeModelName[1], clientKey |-> genAI[1],
                              selectedUnder |-> selectedUnder[1]])
            /\ \E requestOk \in BOOLEAN :
                  ret' = [op |-> "aiFeature", arg |-> <<>>, ok |-> requestOk,
                          out |-> activeModelName]
            /\ aiInit' = aiInit
    /\ UNCHANGED <<questions, questionSearchIndex, search, log, added, startupVars,
                   settingsVars, sessionVars, modalVars, writeVars, quizVars, resultVars, noteVars,
                   indexBuilt, fetchedWhileEmpty, aiVersion, genAI, activeModelName,
                   selectedUnder, initResult>>

\* initializeGenerativeModel after apiKey = await getSetting(...): without key it
\* reports failure; else genAI = new GoogleGenerativeAI(apiKey) and the loop begins
InitGetSetting ==
    /\ Returned
    /\ aiInit.pc = "getSetting"
    /\ \E readOk \in StoreOutcomes :
        LET apiKey == GetSettingResult(settings, GEMINI_API_KEY_DB_KEY, readOk).out IN
        IF apiKey = None
        THEN /\ genAI' = genAI
             /\ InitReturns(FALSE, None, readOk, <<>>, activeModelName, selectedUnder)
        ELSE /\ genAI' = apiKey
             /\ aiInit' = [aiInit EXCEPT !.pc = "probing", !.apiKey = apiKey, !.next = 1]
             /\ UNCHANGED <<ret, activeModelName, selectedUnder, initResult, aiRun>>
    /\ UNCHANGED <<questions, questionSearchIndex, search, log, added, startupVars,
                   settingsVars, sessionVars, modalVars, writeVars, quizVars, resultVars, noteVars,
                   indexBuilt, fetchedWhileEmpty, aiVersion>>

\* one pass of the loop: await model.generateContent("Test") for the model at the
\* position; success sets activeModelName and returns, failure goes on.  After the
\* last model the first copy and part_005 return the failure; the second copy
\* throws into its catch, which logs AI_INIT_CRITICAL and sets activeModelName = null
InitProbe ==
    /\ Returned
    /\ aiInit.pc = "probing"
    /\ \E pingOk \in BOOLEAN :
        LET list == MODEL_PRIORITY_LIST(aiVersion)
            modelName == list[aiInit.next]
            tried == Append(aiInit.tried, [model |-> modelName, ok |-> pingOk])
            outcome == ProbeOutcome(list, aiInit.next, pingOk)
            active == IF pingOk THEN Some(modelName) ELSE activeModelName
            under == IF pingOk THEN genAI ELSE selectedUnder
        IN /\ genAI' = genAI
           /\ IF outcome = "return"
              THEN /\ InitReturns(TRUE, aiInit.apiKey, TRUE, tried, active, under)
                   /\ log' = log
              ELSE IF outcome = "continue"
              THEN /\ aiInit' = [aiInit EXCEPT !.next = aiInit.next + 1, !.tried = tried]
                   /\ activeModelName' = active
                   /\ selectedUnder' = under
                   /\ UNCHANGED <<ret, log, initResult, aiRun>>
              ELSE IF aiVersion = "second"
              THEN /\ InitReturns(FALSE, aiInit.apiKey, TRUE, tried, None, None)
                   /\ log' = log \cup {"AI_INIT_CRITICAL"}
              ELSE /\ InitReturns(FALSE, aiInit.apiKey, TRUE, tried, active, under)
                   /\ log' = log
    /\ UNCHANGED <<questions, questionSearchIndex, search, added, startupVars,
                   settingsVars, sessionVars, modalVars, writeVars, quizVars, resultVars, noteVars,
                   indexBuilt, fetchedWhileEmpty, aiVersion>>

----------------------------------------------------------------------------
(* The caller of a data access function takes the result: `await` resumes it. *)
(* ret shows a result in the state in which the function returned it; nothing   *)
(* else runs between the return and the caller's continuation.                  *)

CallerResumes ==
    /\ ~Returned
    /\ ret' = NoRet
    /\ UNCHANGED <<questions, questionSearchIndex, search, log, added, startupVars,
                   settingsVars, sessionVars, modalVars, aiVars, writeVars, quizVars,
                   resultVars, noteVars, indexBuilt, fetchedWhileEmpty>>

----------------------------------------------------------------------------
(* Specifications *)

Startup ==
    \/ InitializeCount
    \/ InitializeFetch
    \/ InitializeBulkPut
    \/ PopulateStart
    \/ PopulateFinish
    \/ DismissOverlay

\* the question table, the search index and the startup sequence
Next ==
    \/ InitializeCount
    \/ InitializeFetch
    \/ InitializeBulkPut
    \/ PopulateStart
    \/ PopulateFinish
    \/ DismissOverlay
    \/ GetQuestions
    \/ AddQuestions
    \/ FullTextSearchCall
    \/ FullTextSearchResume
    \/ CallerResumes
    \/ Reload

Spec == Init /\ [][Next]_vars

\* the settings table, an object store of its own
NextSettings ==
    \/ GetSetting
    \/ SetSetting
    \/ CallerResumes
    \/ Reload

SpecSettings == Init /\ [][NextSettings]_vars

\* the quiz result table
NextResults ==
    \/ SaveQuizResult
    \/ CallerResumes
    \/ Reload

SpecResults == Init /\ [][NextResults]_vars

\* the note table and the notes page
NextNotes ==
    \/ SaveNote
    \/ DeleteNote
    \/ RenderNotesList
    \/ PageSaveNote
    \/ PageDeleteNote
    \/ CallerResumes
    \/ Reload

SpecNotes == Init /\ [][NextNotes]_vars

\* the note functions of db.js on the note table
NextNoteStore ==
    \/ SaveNote
    \/ DeleteNote
    \/ GetNotes
    \/ CallerResumes
    \/ Reload

SpecNoteStore == Init /\ [][NextNoteStore]_vars

\* the tables the quiz page is started on: empty, and filled by earlier sessions
QuizTables == {{}, {BigQ(1), BigQ(2), Q2}}

\* a session on such a table, the page running either version of page-quiz.js
InitQuiz ==
    /\ questions \in QuizTables
    /\ quizVersion \in QuizVersions
    /\ aiVersion = "first"
    /\ modalVersion \in (IF quizVersion = "second" THEN {"part_004"} ELSE ModalVersions)
    /\ InitSession

NextQuiz ==
    \/ StartNewQuiz
    \/ SelectOption
    \/ NextClick
    \/ EndQuizResume
    \/ NextQuestion
    \/ SubmitQuiz
    \/ GoHome
    \/ StartQuizResume
    \/ HideTimerFires
    \/ Reload

SpecQuiz == InitQuiz /\ [][NextQuiz]_vars

\* addQuestions calls that overlap
NextWriters ==
    \/ BeginAddQuestions
    \/ PutNext
    \/ WritersReturn

SpecWriters == Init /\ [][NextWriters]_vars

\* the sessions of ai.js, in each of its copies
InitAi ==
    /\ questions = {}
    /\ quizVersion = "second"
    /\ aiVersion \in AiVersions
    /\ modalVersion = "part_004"
    /\ InitSession

NextAi ==
    \/ SaveApiKey
    \/ AutoInitialize
    \/ AiFeatureCall
    \/ InitGetSetting
    \/ InitProbe
    \/ CallerResumes
    \/ Reload

SpecAi == InitAi /\ [][NextAi]_vars

\* calls of calculateScore
NextScore ==
    \/ CalculateScoreCall
    \/ CallerResumes

SpecScore == Init /\ [][NextScore]_vars

\* a session in which the dialogs are opened and closed, the page running either
\* version of showModal and hideModal
InitModal ==
    /\ questions = {}
    /\ quizVersion = "first"
    /\ aiVersion = "first"
    /\ modalVersion \in ModalVersions
    /\ InitSession

NextModal ==
    \/ ShowModal
    \/ HideModal
    \/ HideTimerFires
    \/ Reload

SpecModal == InitModal /\ [][NextModal]_vars

----------------------------------------------------------------------------
(* Claims about addQuestions, getQuestions and fullTextSearchQuestions *)

\* the words of the three indexed fields of a stored question
WordsOf(q) ==
    Range(ToSearchDoc(q).question_text) \cup Range(ToSearchDoc(q).explanation_summary)
        \cup Range(ToSearchDoc(q).keywords)

\* `w` is a word of q's question_text and of no other stored question
Distinctive(q, w) ==
    /\ w \in Range(ToSearchDoc(q).question_text)
    /\ \A o \in questions \ {q} : w \notin WordsOf(o)

\* C1: a search for a token that only q's question_text contains, called after
\* addQuestions wrote q in this session, returns a record with q's id (stated for
\* a session in which the library is loaded, the startup sequence has finished,
\* nothing has failed and the query did not throw).
CE_C1_AddedIsSearchable ==
    (ret.op = "search" /\ ~ret.threw /\ flexLoaded /\ pc = "ready" /\ log = {}) =>
        \A q \in ret.after \cap questions :
            Distinctive(q, ret.arg) => q.id \in SeqIds(ret.out)

\* C2: getQuestions(q.subject, q.topic) returns a row with q's id for every row q
\* that addQuestions wrote in this session and that was not overwritten since.
Thm_C2_RoundTrip ==
    (ret.op = "getQuestions" /\ ret.ok) =>
        \A q \in added :
            (q.subject = ret.arg[1] /\ q.topic = ret.arg[2]) => q.id \in SeqIds(ret.out)

\* C2 witness: getQuestions returned for the subject and topic of a row just added,
\* a row without topic included
Wit_C2_RoundTrip ==
    /\ ret.op = "getQuestions" /\ ret.ok
    /\ Q1b \in added /\ ret.arg = <<Q1b.subject, Q1b.topic>>
    /\ Q1b.id \in SeqIds(ret.out)

\* C3: a successful addQuestions step leaves exactly one row for each id of the list
\* that was already stored, that row is the one written last for the id, and when
\* every id of the list was already stored the number of rows is unchanged.
Thm_C3_UpsertReplaces ==
    [][(ret.op = "none" /\ ret'.op = "addQuestions" /\ ret'.ok) =>
        /\ \A q \in Range(ret'.arg) :
              q.id \in Ids(questions) =>
                  /\ Cardinality({r \in questions' : r.id = q.id}) = 1
                  /\ q \in LastPerId(ret'.arg) => q \in questions'
        /\ SeqIds(ret'.arg) \subseteq Ids(questions) =>
              Cardinality(questions') = Cardinality(questions)]_vars

\* C3 witness: addQuestions([Q1b]) returned on the bootstrapped big table, whose
\* row of id 1 it replaced
Wit_C3_UpsertReplaces ==
    /\ ret.op = "addQuestions" /\ ret.ok /\ ret.arg = <<Q1b>>
    /\ Q1b \in questions /\ Q1 \notin questions
    /\ Cardinality(questions) = BigSize

\* C4: fullTextSearchQuestions returns at most 10 records.
CE_C4_AtMostLimit == ret.op = "search" => Len(ret.out) <= Limit

\* C5: the list fullTextSearchQuestions returns holds no two records with the same id.
Thm_C5_NoDuplicateIds ==
    ret.op = "search" =>
        \A i, j \in DOMAIN ret.out : i # j => ret.out[i].id # ret.out[j].id

\* C5 witness: a search returned a document that two field groups both matched
Wit_C5_NoDuplicateIds ==
    /\ ret.op = "search"
    /\ \E g, h \in DOMAIN ret.groups :
          /\ g # h
          /\ SeqIds(ret.groups[g].result) \cap SeqIds(ret.groups[h].result) # {}

----------------------------------------------------------------------------
(* Claims about the bootstrap loader and the startup sequence *)

\* initializeDatabase has returned to the handler
AfterInitialize == pc \in {"populate", "indexing", "overlay", "ready"}

\* the table is non-empty and holds exactly one row per id of the source list
HoldsSource ==
    /\ questions # {}
    /\ \A id \in SeqIds(fetchedQs.items) : Cardinality({r \in questions : r.id = id}) = 1

\* C6, as stated: once initializeDatabase has found the table empty and the source
\* has yielded a non-empty list, the table is non-empty after initializeDatabase
\* and holds exactly one row per distinct id of the list.
CE_C6_BootstrapFills == (AfterInitialize /\ fetchedQs.items # <<>>) => HoldsSource

\* C6, amended: the same when the bulk write of the list succeeded; and then the
\* table holds rows for no other id unless addQuestions wrote them in this session.
Thm_C6_BootstrapFills ==
    (AfterInitialize /\ fetchedQs.items # <<>> /\ bootstrapPut = "ok") =>
        /\ HoldsSource
        /\ added = {} => Ids(questions) = SeqIds(fetchedQs.items)

\* C6 witness: bootstrap wrote a source list in which two records share an id
Wit_C6_BootstrapFills ==
    /\ AfterInitialize /\ bootstrapPut = "ok"
    /\ fetchedQs = JsList(<<Q1, Q1b>>)
    /\ questions = {Q1b}

\* C7: when initializeDatabase starts on a non-empty table it goes straight to its
\* end: it fetches nothing and leaves the table as it is.
Thm_C7_BootstrapIdempotent ==
    [][(pc = "start" /\ pc' # "start" /\ questions # {}) =>
        /\ pc' = "populate"
        /\ fetchResult' = "none"
        /\ bootstrapPut' = "none"
        /\ questions' = questions]_vars

\* C7 witness: a later session whose initializeDatabase found the table populated
\* and returned without fetching
Wit_C7_BootstrapIdempotent ==
    /\ AfterInitialize
    /\ questions # {} /\ added = {}
    /\ fetchResult = "none" /\ "DB_BOOTSTRAP_FAIL" \notin log

\* C8: after a failed fetch of the initial dataset the failure is logged, bootstrap
\* has written nothing (the table holds only what addQuestions wrote in this
\* session), initializeDatabase has returned normally, and the handler is at, or
\* can take, its next step up to the dismissed overlay.
Thm_C8_FetchFailure ==
    fetchResult = "failed" =>
        /\ "INITIAL_DATA_FETCH_FAIL" \in log
        /\ bootstrapPut = "none"
        /\ questions = added
        /\ AfterInitialize
        /\ (pc = "ready") = overlayDismissed
        /\ (pc # "ready" /\ Returned) => ENABLED Startup

\* C8 witness: the startup sequence finished after a failed fetch: the index is built,
\* the overlay dismissed, the table empty
Wit_C8_FetchFailure ==
    /\ fetchResult = "failed"
    /\ pc = "ready" /\ overlayDismissed
    /\ questionSearchIndex = Some(<<>>)
    /\ questions = {}

----------------------------------------------------------------------------
(* Claims about the settings *)

\* C9: getSetting always resolves, and with null when no row has the key and
\* when the read fails.
Thm_C9_GetSettingNeverThrows ==
    ret.op = "getSetting" =>
        /\ ret.ok
        /\ ~ret.readOk => ret.out = None
        /\ (\A r \in settings : r.key # ret.arg) => ret.out = None

\* C9 witness: the read failed for a key that is stored, and getSetting returned null
Wit_C9_GetSettingNeverThrows ==
    /\ ret.op = "getSetting" /\ ~ret.readOk /\ ret.out = None
    /\ \E r \in settings : r.key = ret.arg

\* C10: a getSetting whose read succeeds returns the value of the latest successful
\* setSetting of that key (null when there was none), whatever was set for other keys.
Thm_C10_SettingRoundTrip ==
    (ret.op = "getSetting" /\ ret.readOk) => ret.out = lastSet[ret.arg]

\* C10 witness: getSetting returned the value last set for its key while the other
\* key holds another value
Wit_C10_SettingRoundTrip ==
    /\ ret.op = "getSetting" /\ ret.readOk
    /\ ret.out = Some("k1")
    /\ \E k \in SettingKeys \ {ret.arg} : lastSet[k] = Some("k2")

----------------------------------------------------------------------------
(* Claims about the quiz results *)

\* C11: every saveQuizResult step that resolves returns an id above every id
\* returned earlier in the session and above every id stored, adds exactly the row
\* of that id and keeps every row that was stored.
Thm_C11_ResultIdsIncrease ==
    [][(ret.op = "none" /\ ret'.op = "saveQuizResult" /\ ret'.ok) =>
        /\ \A i \in DOMAIN givenIds : givenIds[i] < ret'.out[1]
        /\ \A r \in quizResults : r.id < ret'.out[1]
        /\ quizResults \subseteq quizResults'
        /\ quizResults' \ quizResults = {[id |-> ret'.out[1], result |-> ret'.arg[1]]}]_vars

\* C11 witness: the second result of a session stored, above the one of an earlier
\* session
Wit_C11_ResultIdsIncrease ==
    /\ ret.op = "saveQuizResult" /\ ret.ok
    /\ givenIds = <<2, 3>>
    /\ Ids(quizResults) = {1, 2, 3}

----------------------------------------------------------------------------
(* Claims about failures in the data layer *)

\* C12: fullTextSearchQuestions always resolves, and with the empty list when the
\* full-text library is not loaded and when the index query throws.
Thm_C12_SearchNeverThrows ==
    ret.op = "search" =>
        /\ ret.ok
        /\ ~flexLoaded => ret.out = <<>>
        /\ ret.threw => ret.out = <<>>

\* C12 witness: the query threw on an index that holds a document matching it, and
\* the call returned the empty list
Wit_C12_SearchNeverThrows ==
    /\ ret.op = "search" /\ ret.threw /\ ret.ok /\ ret.out = <<>>
    /\ questionSearchIndex # None
    /\ SearchNow(questionSearchIndex[1], ret.arg) # <<>>

\* the operations that write to a table on behalf of the user
WriteOps ==
    {"addQuestions", "saveQuizResult", "saveNote", "deleteNote", "pageSaveNote",
     "pageDeleteNote"}

\* C13: a write operation whose storage write failed hands a rejection to its caller
\* (stated for a session whose store opened).
CE_C13_WriteFailureRejects == (dbOpen /\ ret.op \in WriteOps /\ ~ret.writeOk) => ~ret.ok

\* C14: an addQuestions step on a list that holds a record without id rejects and
\* leaves the question table as it was.
CE_C14_BatchAllOrNothing ==
    [][(ret.op = "none" /\ ret'.op = "addQuestions"
            /\ \E i \in DOMAIN ret'.arg : ~HasKey(ret'.arg[i])) =>
        /\ ~ret'.ok
        /\ questions' = questions]_vars

\* C15: in a session whose db.open() failed the failure is logged and the startup
\* sequence does not dismiss the loading overlay nor reach its ready state.
CE_C15_OpenFailureIsFatal ==
    ~dbOpen =>
        /\ "DB_INIT_CRITICAL" \in log
        /\ ~overlayDismissed
        /\ pc # "ready"

----------------------------------------------------------------------------
(* Claims about getQuestions, the index build and the search results *)

\* C16: a getQuestions step that resolves returns each stored question of the given
\* subject (and, when a topic is given, of the given topic) exactly once and nothing
\* else, every question of the subject when no topic is given; the step leaves the
\* search index and the search in flight as they are, built or not.
Thm_C16_GetQuestionsExact ==
    [][(ret.op = "none" /\ ret'.op = "getQuestions" /\ ret'.ok) =>
        /\ \A q \in questions :
              (q \in Range(ret'.out)) <=>
                  /\ q.subject = ret'.arg[1]
                  /\ ret'.arg[2] # "" => q.topic = ret'.arg[2]
        /\ Range(ret'.out) \subseteq questions
        /\ Len(ret'.out) = Cardinality(Range(ret'.out))
        /\ ret'.arg[2] = "" =>
              Range(ret'.out) = {q \in questions : q.subject = ret'.arg[1]}
        /\ questionSearchIndex' = questionSearchIndex
        /\ search' = search]_vars

\* C16 witness: getQuestions("Polity", "IVC") returned the one Polity question of
\* topic IVC and not the stored Polity question without topic, the index not created
Wit_C16_GetQuestionsExact ==
    /\ ret.op = "getQuestions" /\ ret.ok /\ ret.arg = <<"Polity", "IVC">>
    /\ Q1b \in questions
    /\ ret.out = <<BigQ(BigSize)>>
    /\ questionSearchIndex = None

\* C17: a fullTextSearchQuestions call made when no build of this session has read
\* the table runs the build before it queries (stated for a session in which the
\* store opened, the library is loaded and the startup sequence has finished).
CE_C17_SearchBuildsFirst ==
    (ret.op = "search" /\ dbOpen /\ flexLoaded /\ pc = "ready" /\ ~indexBuilt) => ret.built

CE_C20_ResultsAreFullRecords ==
    (ret.op = "search" /\ pc = "ready" /\ log = {} /\ ret.after = {}) =>
        \A i \in DOMAIN ret.out :
            \E q \in questions :
                /\ q.id = ret.out[i].id
                /\ ret.out[i].subject = Some(q.subject)
                /\ ret.out[i].topic = Some(q.topic)
                /\ ret.out[i].explanation = q.explanation

----------------------------------------------------------------------------
(* Claims about the index build *)

\* the words a stored question holds in one of the three indexed fields
StoredWords(q, field) ==
    CASE field = "question_text" ->
            IF q.question_text = None THEN {} ELSE Range(q.question_text[1])
      [] field = "explanation.summary" ->
            IF q.explanation = None THEN {}
            ELSE IF q.explanation[1].summary = None THEN {}
            ELSE Range(q.explanation[1].summary[1])
      [] field = "keywords" ->
            IF q.keywords = None THEN {} ELSE Range(q.keywords[1])

\* `w` occurs in `field` of q, in no other indexed field of q and in no other
\* question of the table
OnlyIn(q, field, w, table) ==
    /\ w \in StoredWords(q, field)
    /\ \A g \in Range(IndexedFields) \ {field} : w \notin StoredWords(q, g)
    /\ \A o \in table \ {q} : \A g \in Range(IndexedFields) : w \notin StoredWords(o, g)

\* C21: when an index build completes that read the question table as it is stored,
\* a query for a token that occurs only in the question_text, only in the
\* explanation summary or only in the keywords of a stored question returns that
\* question: the query of the fullTextSearchQuestions call that ran the build, and
\* any query made on the index as the build of the startup sequence leaves it.
Thm_C21_FindableByEachField ==
    [][/\ (pc = "indexing" /\ pc' = "overlay" /\ startupRead.ok
              /\ startupRead.rows = ToArray(questions)) =>
            \A q \in questions : \A f \in Range(IndexedFields) : \A w \in Queries :
                OnlyIn(q, f, w, questions) =>
                    q.id \in SeqIds(SearchNow(questionSearchIndex'[1], w))
       /\ (search.pc = "indexing" /\ ret'.op = "search" /\ ~ret'.threw /\ search.read.ok
              /\ search.read.rows = ToArray(questions)) =>
            \A q \in questions : \A f \in Range(IndexedFields) :
                OnlyIn(q, f, ret'.arg, questions) => q.id \in SeqIds(ret'.out)]_vars

\* C21 witness: the search that built the index on the table that holds Q1b alone
\* returned it for "q1", a word of its explanation summary only
Wit_C21_FindableByEachField ==
    /\ ret.op = "search" /\ ret.built /\ ~ret.threw
    /\ questions = {Q1b} /\ ret.arg = wQ1
    /\ OnlyIn(Q1b, "explanation.summary", wQ1, questions)
    /\ SeqIds(ret.out) = {Q1b.id}

----------------------------------------------------------------------------
(* Claims about the notes *)

\* C22: a getNotes that resolves after any sequence of saveNote and deleteNote
\* calls returns every stored note, each exactly once, and no note before one with
\* a later timestamp.
Thm_C22_GetNotesNewestFirst ==
    (ret.op = "getNotes" /\ ret.ok) =>
        /\ Range(ret.out) = notes
        /\ Len(ret.out) = Cardinality(notes)
        /\ \A i, j \in DOMAIN ret.out :
              i < j => ret.out[i].timestamp.n >= ret.out[j].timestamp.n

\* C22 witness: getNotes returned note 1 before note 2: note 1 was saved again,
\* under its id, after note 2 was saved
Wit_C22_GetNotesNewestFirst ==
    /\ ret.op = "getNotes" /\ ret.ok
    /\ Len(ret.out) = 2
    /\ ret.out[1].id = NumKey(1) /\ ret.out[2].id = NumKey(2)
    /\ ret.out[1].timestamp.n > ret.out[2].timestamp.n

----------------------------------------------------------------------------
(* Claims about the quiz page *)

\* C23: every completed quiz run has made exactly one saveQuizResult call, and no
\* more results are stored than runs were completed.
CE_C23_OneSavePerCompletedRun ==
    /\ saveCalls = completedRuns
    /\ Cardinality(quizResults) <= completedRuns

----------------------------------------------------------------------------
(* Claims about the startup sequence and the index *)

\* the ids of the documents the index holds
IndexedIds == IF questionSearchIndex = None THEN {} ELSE SeqIds(questionSearchIndex[1])

\* C24: in a start whose bootstrap wrote the initial dataset, the read of the index
\* build of the startup sequence holds a row for every id of the dataset, and once
\* that build has run the index holds a document for every id of the dataset
\* (stated for a session in which the library is loaded and no read of an index
\* build failed).
Thm_C24_BuildAfterBootstrap ==
    (bootstrapPut = "ok" /\ flexLoaded /\ "SEARCH_INDEX_POPULATE_FAIL" \notin log) =>
        /\ (pc = "indexing" /\ startupRead.ok) =>
              SeqIds(fetchedQs.items) \subseteq SeqIds(startupRead.rows)
        /\ pc \in {"overlay", "ready"} => SeqIds(fetchedQs.items) \subseteq IndexedIds

\* C24 witness: the startup sequence completed after the bootstrap of the large
\* dataset, and the index holds one document per row
Wit_C24_BuildAfterBootstrap ==
    /\ pc = "ready" /\ bootstrapPut = "ok" /\ flexLoaded /\ log = {}
    /\ fetchedQs = JsList(BigDataset)
    /\ IndexedIds = 1..BigSize
    /\ Len(questionSearchIndex[1]) = BigSize


\* C25: once the startup sequence of a session has run its index build, the index
\* holds a document for every stored question that addQuestions did not write in
\* this session, and, in a session whose bootstrap wrote nothing, the document of
\* the question as it is stored: the questions that addQuestions wrote in earlier
\* sessions included (stated for a session in which the library is loaded and no
\* read of an index build failed).
Thm_C25_RestartRebuildsIndex ==
    (pc \in {"overlay", "ready"} /\ flexLoaded /\ "SEARCH_INDEX_POPULATE_FAIL" \notin log) =>
        /\ Ids(questions \ added) \subseteq IndexedIds
        /\ bootstrapPut # "ok" =>
              \A q \in questions \ added : ToSearchDoc(q) \in Range(questionSearchIndex[1])

\* C25 witness: a later session completed its startup on a table that holds Q2,
\* which only an addQuestions of an earlier session can have written, without
\* fetching; the index holds the document of Q2
Wit_C25_RestartRebuildsIndex ==
    /\ pc = "ready" /\ flexLoaded /\ log = {}
    /\ fetchResult = "none" /\ added = {}
    /\ Q2 \in questions
    /\ ToSearchDoc(Q2) \in Range(questionSearchIndex[1])


\* C26: a fullTextSearchQuestions call that returns while the index build of the
\* startup sequence awaits its read returns every question of that read for a token
\* that the question holds in one indexed field and no other question of the read
\* holds (stated for a read that succeeds and a query that does not throw).
CE_C26_SearchSharesBuild ==
    (ret.op = "search" /\ ~ret.threw /\ pc = "indexing" /\ startupRead.ok) =>
        \A q \in Range(startupRead.rows) : \A f \in Range(IndexedFields) :
            OnlyIn(q, f, ret.arg, Range(startupRead.rows)) => q.id \in SeqIds(ret.out)

----------------------------------------------------------------------------
(* Claims about the question table *)

\* the rows two settled calls were given
WrittenRows == Range(writers[1].rows) \cup Range(writers[2].rows)

\* two addQuestions calls overlapped and both resolved
BothResolved ==
    /\ Len(writers) = 2
    /\ \A i \in DOMAIN writers : writers[i].done /\ ~writers[i].failed

\* C27: when two addQuestions calls that overlapped have both resolved, the table
\* holds exactly one row for each id of the two lists and of the table as it was
\* before and for no other id; the row of an id of the lists is one of the rows
\* given for that id, and every other row is as it was before.
Thm_C27_ConcurrentUpserts ==
    BothResolved =>
        /\ Ids(questions) = Ids(tableBefore) \cup Ids(WrittenRows)
        /\ \A id \in Ids(questions) : Cardinality({r \in questions : r.id = id}) = 1
        /\ \A r \in questions :
              IF r.id \in Ids(WrittenRows) THEN r \in WrittenRows ELSE r \in tableBefore

\* C27 witness: the calls for [Q1b, Q2] and [Q1] both resolved on a table that held
\* one row, the put of the second between the two puts of the first
Wit_C27_ConcurrentUpserts ==
    /\ BothResolved
    /\ writers[1].rows = <<Q1b, Q2>> /\ writers[1].cut
    /\ writers[2].rows = <<Q1>>
    /\ Q2 \in questions /\ Q1 \in questions
    /\ Cardinality(tableBefore) = 1 /\ Cardinality(questions) = 2

----------------------------------------------------------------------------
(* Claims about the index build and optional fields *)

\* the index holds for q a document whose entry is empty for each indexed field
\* that q lacks
HasDefaultedDoc(idx, q) ==
    \E i \in DOMAIN idx :
        /\ idx[i].id = q.id
        /\ q.question_text = None => idx[i].question_text = <<>>
        /\ q.explanation = None => idx[i].explanation_summary = <<>>
        /\ (q.explanation # None /\ q.explanation[1].summary = None) =>
              idx[i].explanation_summary = <<>>
        /\ q.keywords = None => idx[i].keywords = <<>>

\* C28: an index build whose read succeeded logs no error and leaves in the index,
\* for every row it read, a document with an empty entry for each of question_text,
\* explanation summary and keywords that the row lacks: rows without explanation,
\* without explanation.summary, without keywords or without question_text do not
\* keep the other rows from being indexed.
Thm_C28_BuildToleratesMissingFields ==
    [][/\ (pc = "indexing" /\ pc' = "overlay" /\ startupRead.ok) =>
            /\ log' = log
            /\ \A q \in Range(startupRead.rows) :
                  HasDefaultedDoc(questionSearchIndex'[1], q)
       /\ (search.pc = "indexing" /\ ret'.op = "search" /\ search.read.ok) =>
            /\ log' = log
            /\ \A q \in Range(search.read.rows) :
                  HasDefaultedDoc(questionSearchIndex'[1], q)]_vars

\* C28 witness: the startup build has indexed the large dataset, whose first rows
\* have neither explanation nor keywords and whose last row has no question_text
\* and an explanation without summary; nothing was logged
Wit_C28_BuildToleratesMissingFields ==
    /\ pc = "overlay" /\ log = {}
    /\ questionSearchIndex # None
    /\ questions = Range(BigDataset)
    /\ BigQ(1).explanation = None /\ BigQ(1).keywords = None
    /\ BigQ(BigSize).question_text = None
    /\ BigQ(BigSize).explanation # None /\ BigQ(BigSize).explanation[1].summary = None
    /\ \A q \in questions : HasDefaultedDoc(questionSearchIndex[1], q)
    /\ Len(questionSearchIndex[1]) = BigSize

----------------------------------------------------------------------------
(* Claims about the rows of the question table *)

\* C29: no step removes a question: the ids of the rows of the question table
\* after a step include those before it, and the table has at least as many rows.
Thm_C29_QuestionsNeverRemoved ==
    [][/\ Ids(questions) \subseteq Ids(questions')
       /\ Cardinality(questions') >= Cardinality(questions)]_vars

\* C29 witness: addQuestions has resolved on a table that the bootstrap filled with
\* the large dataset; it replaced a row of the dataset, and every id of the
\* dataset is still in the table
Wit_C29_QuestionsNeverRemoved ==
    /\ ret.op = "addQuestions" /\ ret.ok
    /\ bootstrapPut = "ok"
    /\ Range(BigDataset) \ questions # {}
    /\ Ids(Range(BigDataset)) \subseteq Ids(questions)
    /\ Cardinality(questions) >= BigSize


\* C30: every row of the question table has an option marked correct.
CE_C30_EveryQuestionHasCorrectOption ==
    \A q \in questions : \E i \in DOMAIN q.options : q.options[i].is_correct

----------------------------------------------------------------------------
(* Claims about grading *)

\* the per-question results of the run whose results are shown
RunResults ==
    IF quizVersion = "first" THEN quizRunResults
    ELSE ResultsOfAll(currentQuestions, userAnswers)

\* C31: when the results of a run are shown, the aggregate of the run's
\* per-question results has totalQuestions equal to their number, score equal to
\* the number of correct ones, and a mistakes log with one entry per incorrect
\* result, in order, that carries the selections of that result and the mistakes
\* calculateScore finds for that question and those selections; score plus the
\* length of the log is totalQuestions.
CE_C31_AggregateCarriesMistakes ==
    quizPc = "results" =>
        LET results == RunResults
            agg == AggregateQuizResults(results)
            wrong == SelectSeq(results, LAMBDA r : ~r.isCorrect)
        IN /\ agg.totalQuestions = Len(results)
           /\ agg.score = Cardinality({i \in DOMAIN results : results[i].isCorrect})
           /\ Len(agg.mistakes) = Len(wrong)
           /\ agg.score + Len(agg.mistakes) = agg.totalQuestions
           /\ \A i \in DOMAIN agg.mistakes :
                 /\ i <= Len(wrong)
                 /\ agg.mistakes[i].questionId = wrong[i].questionId
                 /\ agg.mistakes[i].userSelections = wrong[i].userSelections
                 /\ \E q \in questions :
                       /\ q.id = wrong[i].questionId
                       /\ agg.mistakes[i].detailedMistakes =
                              CalculateScore(q, wrong[i].userSelections).mistakes


\* the ids of the options of a question that are marked correct
MarkedCorrect(question) ==
    {question.options[i].id :
        i \in {k \in DOMAIN question.options : question.options[k].is_correct}}

\* C32: calculateScore returns isCorrect true exactly when the set of the selected
\* ids is the set of the ids of the options marked correct, and then score 1;
\* otherwise it returns score 0 and as mistakes a non-empty list that holds, each
\* once, the ids marked correct and not selected and the ids selected and not
\* marked correct.
Thm_C32_ExactMatchGrading ==
    ret.op = "calculateScore" =>
        LET selected == Range(ret.arg[2])
            correct == MarkedCorrect(ret.arg[1])
            differ == (correct \ selected) \cup (selected \ correct)
        IN /\ ret.out.isCorrect <=> selected = correct
           /\ ret.out.isCorrect => ret.out.score = 1
           /\ ~ret.out.isCorrect =>
                 /\ ret.out.score = 0
                 /\ ret.out.mistakes # <<>>
                 /\ Range(ret.out.mistakes) = differ
                 /\ Len(ret.out.mistakes) = Cardinality(differ)

\* C32 witness: option "a" is marked correct and "b" is not, and the selections are
\* "c" twice: the answer is graded incorrect with mistakes "a" (missed) and "c"
\* (wrongly chosen), each once
Wit_C32_ExactMatchGrading ==
    /\ ret.op = "calculateScore"
    /\ ret.arg[1].options = OneCorrect
    /\ ret.arg[2] = <<"c", "c">>
    /\ ~ret.out.isCorrect
    /\ ret.out.mistakes = <<"a", "c">>

----------------------------------------------------------------------------
(* Claims about the storage contract of notes *)

\* the step saves, under the key `key` that a stored note has, a note titled `title`:
\* that note is overwritten, the others and their number are as before
Overwrites(key, title) ==
    /\ Cardinality(notes') = Cardinality(notes)
    /\ \E r \in notes' : r.id = key /\ r.title = title
    /\ {r \in notes' : r.id # key} = {r \in notes : r.id # key}

\* the step stores one new note under a key that no stored note had
StoresNew ==
    \E r \in notes' : r.id \notin Ids(notes) /\ notes' = notes \cup {r}

\* C33: a saveNote that succeeds on a note carrying the id of a stored note
\* overwrites that note and leaves the number of notes unchanged; on a note without
\* id it stores a new note under a key no stored note has; a deleteNote(id) that
\* succeeds removes the note of that id and nothing else.  Stated of the functions
\* of db.js and of those of the notes page.
CE_C33_NoteStorageContract ==
    [][/\ (ret'.op = "saveNote" /\ ret'.ok) =>
            IF ret'.arg[1] = None THEN StoresNew
            ELSE (ret'.arg[1][1] \in Ids(notes)) => Overwrites(ret'.arg[1][1], ret'.arg[2])
       /\ (ret'.op = "pageSaveNote" /\ ret'.writeOk) =>
            IF ret'.arg[1] = None THEN StoresNew
            ELSE (NumKey(ret'.arg[1][1]) \in Ids(notes)) =>
                     Overwrites(NumKey(ret'.arg[1][1]), ret'.arg[2])
       /\ (ret'.op = "deleteNote" /\ ret'.ok) =>
            notes' = {r \in notes : r.id # ret'.arg[1]}
       /\ (ret'.op = "pageDeleteNote" /\ ret'.arg[2] /\ ret'.writeOk) =>
            notes' = {r \in notes : r.id # NumKey(ret'.arg[1])}]_vars

----------------------------------------------------------------------------
(* Claims about the selection of the generative model *)

\* C34: what initializeGenerativeModel last reported agrees with its test requests:
\* they went through the priority list in order from its first model; on success
\* the last request succeeded, every request before it failed, nothing was tried
\* after it, and activeModelName is that model; a failure is reported only when
\* getSetting handed over no API key (then nothing was tried) or when every model of
\* the list was tried and failed.
Thm_C34_FirstWorkingModel ==
    initResult # None =>
        LET r == initResult[1]
            list == MODEL_PRIORITY_LIST(aiVersion)
            n == Len(r.tried)
        IN /\ n <= Len(list)
           /\ \A i \in 1..n : r.tried[i].model = list[i]
           /\ \A i \in 1..n : i < n => ~r.tried[i].ok
           /\ r.success =>
                 /\ n >= 1
                 /\ r.tried[n].ok
                 /\ r.model = Some(list[n])
                 /\ activeModelName = r.model
           /\ ~r.success =>
                 \/ r.keyRead = None /\ n = 0
                 \/ n = Len(list) /\ \A i \in 1..n : ~r.tried[i].ok

\* C34 witness: the first two models of the list failed their test requests and the
\* third one passed: it is the active model and the fourth was not tried
Wit_C34_FirstWorkingModel ==
    /\ initResult # None
    /\ initResult[1].success
    /\ Len(initResult[1].tried) = 3
    /\ ~initResult[1].tried[1].ok /\ ~initResult[1].tried[2].ok
    /\ activeModelName = Some(MODEL_PRIORITY_LIST(aiVersion)[3])
    /\ Len(MODEL_PRIORITY_LIST(aiVersion)) > 3


\* C37: after initializeGenerativeModel has reported failure no model is active,
\* and a feature request is never sent for a model that was selected under an API
\* key other than the one of the client it is sent with.
CE_C37_FailureLeavesNoModel ==
    /\ (initResult # None /\ ~initResult[1].success) => activeModelName = None
    /\ aiRun # None => aiRun[1].clientKey = aiRun[1].selectedUnder

----------------------------------------------------------------------------
(* Claims about the bootstrap and concurrent writes *)

\* C35: the bulk write of the bootstrap replaces no question that addQuestions
\* stored in this session since the bootstrap counted the table: every such row is
\* still in the table after the write.
CE_C35_BootstrapKeepsAdded ==
    [][(pc = "bulkPut" /\ bootstrapPut' = "ok") => \A r \in added : r \in questions']_vars

----------------------------------------------------------------------------
(* Claims about repeated index builds *)

\* the index one build over the table makes from an empty index
SingleBuild(table) == IndexAddAll(<<>>, ToArray(table))

\* the stored questions a query matches in an indexed field
Matching(table, query) ==
    {q \in table : \E f \in Range(IndexedFields) : FieldMatches(ToSearchDoc(q), f, query)}

\* C36: an index build that completes on a read of the table as it is stored, be it
\* the first of the session, a repeated one or one that overlapped another, leaves
\* the index as a single build over the table leaves it, with exactly one document
\* per stored question id; and a search on such an index returns no id twice and
\* no more records than there are stored questions matching the query.
Thm_C36_BuildIdempotent ==
    [][/\ (pc = "indexing" /\ pc' = "overlay" /\ startupRead.ok
             /\ startupRead.rows = ToArray(questions)) =>
            /\ questionSearchIndex'[1] = SingleBuild(questions)
            /\ Len(questionSearchIndex'[1]) = Cardinality(Ids(questions))
       /\ (search.pc = "indexing" /\ ret'.op = "search" /\ search.read.ok
             /\ search.read.rows = ToArray(questions)) =>
            /\ questionSearchIndex'[1] = SingleBuild(questions)
            /\ Len(questionSearchIndex'[1]) = Cardinality(Ids(questions))
       /\ (ret'.op = "search" /\ ~ret'.threw /\ questionSearchIndex' # None
             /\ questionSearchIndex'[1] = SingleBuild(questions')) =>
            /\ Len(ret'.out) <= Cardinality(Matching(questions', ret'.arg))
            /\ Cardinality(SeqIds(ret'.out)) = Len(ret'.out)]_vars

\* C36 witness: a search called before the startup build ran its own build, the
\* startup build completed as well, both over the same non-empty table, and the
\* search has returned a record: the index is that of a single build
Wit_C36_BuildIdempotent ==
    /\ ret.op = "search" /\ ret.built /\ ~ret.threw
    /\ pc = "overlay"
    /\ "SEARCH_INDEX_POPULATE_FAIL" \notin log
    /\ added = {}
    /\ Cardinality(questions) > 1
    /\ questionSearchIndex # None
    /\ questionSearchIndex[1] = SingleBuild(questions)
    /\ ret.out # <<>>


\* C39: after a showModal that succeeded, and until the next hideModal call, the
\* modal is visible and the content shown is the visible, active content: the timer
\* of an earlier hideModal does not hide it
CE_C39_StaleTimerSparesShownModal ==
    shownSince # None =>
        /\ ~modalHidden
        /\ shownSince[1] \in visibleContent
        /\ modalVersion = "ui-common" => activeModalContentId = shownSince


\* C38: whenever a question is rendered or graded, currentQuestionIndex is an
\* index of the list loaded at that moment: 0 <= index < length.
CE_C38_IndexValidWhenUsed ==
    indexUse # None =>
        /\ 0 <= indexUse[1].index
        /\ indexUse[1].index < indexUse[1].length

====
